---- MODULE Spec2Model ----
(***************************************************************************)
(* Model of the PDF merger: pdfmerger/core.py (merge_pdf_streams,          *)
(* images_to_pdf_streams, compress_pdf_stream, merge_pdfs, natural_key)    *)
(* and the stand-alone script merge_unprotect_pdfs.py (merge_pdfs, main).  *)
(*                                                                         *)
(* The PDF codec (PyPDF2) and the image library (Pillow) are external: a   *)
(* document is modelled by what the codec reports about it (readable or    *)
(* not, encrypted or not, the password that unlocks it, its pages, the     *)
(* page on which add_page raises).                                         *)
(***************************************************************************)
EXTENDS Integers, Sequences, FiniteSets, TLC

VARIABLES
    op,                 \* the entry point this run executes
    pc,                 \* position of the run inside that entry point
    inputs,             \* the sources handed to the entry point, in caller order
    default_password,   \* default_password (common_password in merge_pdfs)
    prompt_missing_passwords,
    order_mode,
    folder_exists,      \* main: os.path.isdir(args.folder)
    sorted_inputs,      \* merge_pdfs: the paths after the sort
    idx,                \* number of sources the per-source loop has consumed
    writer,             \* pages added to the PdfWriter so far, in order
    merged_count,
    skipped_count,
    skipped_files,
    pages,              \* compress_pdf_stream: its page counter
    processed_entries,  \* images_to_pdf_streams: the (name, image) pairs decoded
    result,             \* the value returned (NoResult until the call returns)
    output_file,        \* merge_pdfs: what is at output_path
    exit_code,          \* main: the process's exit status (NotExited while running)
    stdout,             \* the lines printed, in order
    attempts,           \* per source: the passwords handed to try_decrypt, in order
    prompts             \* per source: the getpass responses, in order

args == <<op, inputs, default_password, prompt_missing_passwords, order_mode,
          folder_exists>>
counters == <<merged_count, skipped_count, skipped_files>>
fsVars == <<sorted_inputs, output_file, exit_code, stdout>>

vars == <<args, counters, fsVars, pc, idx, writer, pages, processed_entries,
          result, attempts, prompts>>

-----------------------------------------------------------------------------
(* Bounds of the model *)

MaxDocs == 2
MaxPages == 2
MaxImages == 3
MaxFiles == 2
MaxPrompts == 2
MaxNameLen == 3

(* Python's None, for Optional[str] and Optional[BytesIO] *)
None == "<None>"
NoResult == [returned |-> FALSE]
NoFile == [exists |-> FALSE]
NotExited == -1

Passwords == {"a", "b"}

(* Python truthiness of an Optional[str]: None and "" are falsy *)
Truthy(s) == s # None /\ s # ""

-----------------------------------------------------------------------------
(* What the codec reports about a byte stream *)

\* PdfReader(stream) raises on these
CorruptDocs == {[kind |-> "corrupt", pw |-> None, pages |-> 0, bad_page |-> 0]}

\* bad_page = k > 0: writer.add_page raises on page k of the document
ReadableDocs(kind, pws, maxPages) ==
    {[kind |-> kind, pw |-> w, pages |-> n, bad_page |-> b] :
        w \in pws, n \in 1..maxPages, b \in 0..maxPages} \
    {d \in [kind : {kind}, pw : pws, pages : 1..maxPages, bad_page : 0..maxPages] :
        d.bad_page > d.pages}

PlainDocs == ReadableDocs("plain", {None}, MaxPages)
EncryptedDocs == ReadableDocs("encrypted", Passwords, MaxPages)

Docs == CorruptDocs \cup PlainDocs \cup EncryptedDocs

Range(s) == {s[k] : k \in 1..Len(s)}

\* PDFInput(name, stream, password): the k-th source is named by its position
SourceName(k) == "f" \o ToString(k)

\* a per-document password comes with encrypted documents only: for the
\* others the default password is the one candidate that goes unused
OverridesFor(d) ==
    IF d.kind = "encrypted" THEN {None} \cup Passwords ELSE {None}

PDFInputs(k) ==
    {[name |-> SourceName(k), doc |-> d, password |-> p] :
        d \in Docs, p \in {None} \cup Passwords} \
    {x \in [name : {SourceName(k)}, doc : Docs, password : {None} \cup Passwords] :
        x.password \notin OverridesFor(x.doc)}

InputSeqs(n) ==
    {s \in [1..n -> UNION {PDFInputs(k) : k \in 1..n}] :
        \A k \in 1..n : s[k].name = SourceName(k)}

\* the default password: absent, empty, or one of the passwords (which one
\* makes no difference, the documents and responses range over all of them)
DefaultPasswords == {None, "", "a"}

-----------------------------------------------------------------------------
(* try_decrypt: reader.decrypt answers with a bool (newer codecs) or with an
   ordinal 0/1/2 (older ones); anything else, or an exception, is a failure *)

CodecStyles == {"bool", "ordinal"}

reader_decrypt(doc, password, codec) ==
    IF codec = "bool"
    THEN [tag |-> "bool", b |-> (password = doc.pw)]
    ELSE [tag |-> "int", n |-> IF password = doc.pw THEN 1 ELSE 0]

try_decrypt(doc, password, codec) ==
    LET res == reader_decrypt(doc, password, codec)
    IN  IF res.tag = "bool" THEN res.b
        ELSE IF res.tag = "int" THEN res.n # 0
        ELSE FALSE

passwords_to_try_default_only(pdf_input, default) ==
    IF Truthy(default) THEN <<default>>
    ELSE IF Truthy(pdf_input.password) THEN <<pdf_input.password>> ELSE <<>>

passwords_to_try(pdf_input, default) ==
    LET first == IF Truthy(default) THEN <<default>> ELSE <<>>
    IN  IF Truthy(pdf_input.password) /\ pdf_input.password \notin Range(first)
        THEN Append(first, pdf_input.password)
        ELSE first

RECURSIVE UnlockLoopTriesAll(_, _, _, _)
UnlockLoopTriesAll(doc, passwords, codec, tried) ==
    IF passwords = <<>>
    THEN [unlocked |-> \E i \in 1..Len(tried) : try_decrypt(doc, tried[i], codec),
          tried |-> tried]
    ELSE UnlockLoopTriesAll(doc, Tail(passwords), codec, Append(tried, Head(passwords)))

\* for password in passwords: if password and try_decrypt(...): unlocked; break
RECURSIVE UnlockLoop(_, _, _, _)
UnlockLoop(doc, passwords, codec, tried) ==
    IF passwords = <<>> THEN [unlocked |-> FALSE, tried |-> tried]
    ELSE LET password == Head(passwords)
         IN  IF ~Truthy(password)
             THEN UnlockLoop(doc, Tail(passwords), codec, tried)
             ELSE IF try_decrypt(doc, password, codec)
                  THEN [unlocked |-> TRUE, tried |-> Append(tried, password)]
                  ELSE UnlockLoop(doc, Tail(passwords), codec, Append(tried, password))

\* for page in reader.pages: writer.add_page(page), up to the page that raises
AppendedPagesReversed(k, doc) ==
    LET n == IF doc.bad_page > 0 THEN doc.bad_page - 1 ELSE doc.pages
    IN  [p \in 1..n |-> [src |-> k, page |-> n + 1 - p]]

AppendedPagesRolledBack(k, doc) ==
    IF doc.bad_page > 0 THEN <<>> ELSE [p \in 1..doc.pages |-> [src |-> k, page |-> p]]

AppendedPages(k, doc) ==
    LET n == IF doc.bad_page > 0 THEN doc.bad_page - 1 ELSE doc.pages
    IN  [p \in 1..n |-> [src |-> k, page |-> p]]

AppendRaises(doc) == doc.bad_page > 0

-----------------------------------------------------------------------------
(* merge_pdf_streams *)

\* the locals every entry point starts from, and the state it never touches
FreshRun ==
    /\ idx = 0
    /\ writer = <<>>
    /\ merged_count = 0
    /\ skipped_count = 0
    /\ skipped_files = <<>>
    /\ pages = 0
    /\ processed_entries = <<>>
    /\ result = NoResult
    /\ sorted_inputs = <<>>
    /\ output_file = NoFile
    /\ exit_code = NotExited
    /\ stdout = <<>>
    /\ attempts = <<>>
    /\ prompts = <<>>

\* merge_pdf_streams and compress_pdf_stream never prompt, sort or touch a folder
NoFilesystem ==
    /\ prompt_missing_passwords = FALSE
    /\ order_mode = "name"
    /\ folder_exists = TRUE

StreamsInit ==
    /\ op = "merge_pdf_streams"
    /\ pc = "loop"
    /\ \E n \in 0..MaxDocs : inputs \in InputSeqs(n)
    /\ default_password \in DefaultPasswords
    /\ NoFilesystem
    /\ FreshRun

\* one iteration of "for pdf_input in inputs"
StreamsSource ==
    /\ op = "merge_pdf_streams" /\ pc = "loop" /\ idx < Len(inputs)
    /\ \E codec \in CodecStyles :
        LET k == idx + 1
            pdf_input == inputs[k]
            doc == pdf_input.doc
            unlock == IF doc.kind = "encrypted"
                      THEN UnlockLoop(doc, passwords_to_try(pdf_input, default_password),
                                      codec, <<>>)
                      ELSE [unlocked |-> TRUE, tried |-> <<>>]
            skip == /\ skipped_count' = skipped_count + 1
                    /\ skipped_files' = Append(skipped_files, pdf_input.name)
                    /\ merged_count' = merged_count
        IN  /\ idx' = k
            /\ prompts' = Append(prompts, <<>>)
            /\ IF doc.kind = "corrupt"
               THEN /\ skip
                    /\ attempts' = Append(attempts, <<>>)
                    /\ writer' = writer
               ELSE /\ attempts' = Append(attempts, unlock.tried)
                    /\ IF ~unlock.unlocked
                       THEN skip /\ writer' = writer
                       ELSE /\ writer' = writer \o AppendedPages(k, doc)
                            /\ IF AppendRaises(doc)
                               THEN skip
                               ELSE /\ merged_count' = merged_count + 1
                                    /\ UNCHANGED <<skipped_count, skipped_files>>
    /\ UNCHANGED <<args, fsVars, pc, pages, processed_entries, result>>

\* Optional[io.BytesIO]: None, or the bytes writer.write produced (the pages)
NoBuffer == [present |-> FALSE]
Buffer(content) == [present |-> TRUE, pages |-> content]

MergeOutput(buffer, merged, skipped, files) ==
    [returned |-> TRUE, buffer |-> buffer, merged_count |-> merged,
     skipped_count |-> skipped, skipped_files |-> files]

\* MergeOutput.has_output
has_output(r) == r.buffer.present /\ r.merged_count > 0

StreamsResultAlwaysWrites(w, merged, skipped, files) ==
    MergeOutput(Buffer(w), merged, skipped, files)

\* lines 181-192: no buffer when nothing merged, else the serialized writer
StreamsResult(w, merged, skipped, files) ==
    IF merged = 0
    THEN MergeOutput(NoBuffer, 0, skipped, files)
    ELSE MergeOutput(Buffer(w), merged, skipped, files)

\* after the loop: no buffer when nothing merged, else writer.write(output_buffer)
StreamsReturn ==
    /\ op = "merge_pdf_streams" /\ pc = "loop" /\ idx = Len(inputs)
    /\ pc' = "returned"
    /\ result' = StreamsResult(writer, merged_count, skipped_count, skipped_files)
    /\ UNCHANGED <<args, counters, fsVars, idx, writer, pages, processed_entries,
                   attempts, prompts>>

\* writer.write(output_buffer) raises: the exception leaves merge_pdf_streams
StreamsWriteRaises ==
    /\ op = "merge_pdf_streams" /\ pc = "loop" /\ idx = Len(inputs)
    /\ merged_count # 0
    /\ pc' = "raised"
    /\ UNCHANGED <<args, counters, fsVars, idx, writer, pages, processed_entries,
                   result, attempts, prompts>>

StreamsNext == StreamsSource \/ StreamsReturn \/ StreamsWriteRaises

Spec == StreamsInit /\ [][StreamsNext]_vars

-----------------------------------------------------------------------------
(* images_to_pdf_streams *)

\* what Pillow makes of a stream: Image.open/load raises, or an image in a mode
ImageModes == {"RGB", "L"}

ImageInputs(k) ==
    {[name |-> SourceName(k), decodable |-> FALSE, mode |-> None]} \cup
    {[name |-> SourceName(k), decodable |-> TRUE, mode |-> m] : m \in ImageModes}

ImageSeqs(n) ==
    {s \in [1..n -> UNION {ImageInputs(k) : k \in 1..n}] :
        \A k \in 1..n : s[k].name = SourceName(k)}

\* opened.convert("RGB") unless the mode is RGB already, else opened.copy()
NormalizeImage(image_input) ==
    [name |-> image_input.name,
     mode |-> IF image_input.mode # "RGB" THEN "RGB" ELSE image_input.mode]

ImageToPDFOutput(buffer, processed, skipped, files) ==
    [returned |-> TRUE, buffer |-> buffer, processed_count |-> processed,
     skipped_count |-> skipped, skipped_files |-> files]

EntryNames(entries) == [k \in 1..Len(entries) |-> entries[k].name]

ImagesInit ==
    /\ op = "images_to_pdf_streams"
    /\ pc = "loop"
    /\ \E n \in 0..MaxImages : inputs \in ImageSeqs(n)
    /\ default_password = None
    /\ NoFilesystem
    /\ FreshRun

\* one iteration of "for image_input in inputs"
ImagesSource ==
    /\ op = "images_to_pdf_streams" /\ pc = "loop" /\ idx < Len(inputs)
    /\ LET image_input == inputs[idx + 1]
       IN  /\ idx' = idx + 1
           /\ IF ~image_input.decodable
              THEN /\ skipped_files' = Append(skipped_files, image_input.name)
                   /\ UNCHANGED processed_entries
              ELSE /\ processed_entries' =
                        Append(processed_entries, NormalizeImage(image_input))
                   /\ UNCHANGED skipped_files
    /\ UNCHANGED <<args, fsVars, pc, writer, merged_count, skipped_count, pages,
                   result, attempts, prompts>>

\* lines 230-239 and 268-278: nothing decoded, or first_image.save succeeded
ImagesResult(entries, files) ==
    IF Len(entries) = 0
    THEN ImageToPDFOutput(NoBuffer, 0, Len(files), files)
    ELSE ImageToPDFOutput(Buffer(entries), Len(entries), Len(files), files)

ImagesSaveFailedKeepsCounts(entries, files) ==
    ImageToPDFOutput(NoBuffer, Len(entries), Len(files), files)

\* lines 256-266: first_image.save raised
ImagesSaveFailed(entries, files) ==
    ImageToPDFOutput(NoBuffer, 0, Len(files) + Len(entries),
                     files \o EntryNames(entries))

ImagesReturn ==
    /\ op = "images_to_pdf_streams" /\ pc = "loop" /\ idx = Len(inputs)
    /\ pc' = "returned"
    /\ skipped_count' = Len(skipped_files)
    /\ result' = ImagesResult(processed_entries, skipped_files)
    /\ UNCHANGED <<args, fsVars, idx, writer, merged_count, skipped_files, pages,
                   processed_entries, attempts, prompts>>

ImagesSaveRaises ==
    /\ op = "images_to_pdf_streams" /\ pc = "loop" /\ idx = Len(inputs)
    /\ Len(processed_entries) # 0
    /\ pc' = "returned_after_save_error"
    /\ skipped_count' = Len(skipped_files)
    /\ result' = ImagesSaveFailed(processed_entries, skipped_files)
    /\ UNCHANGED <<args, fsVars, idx, writer, merged_count, skipped_files, pages,
                   processed_entries, attempts, prompts>>

ImagesNext == ImagesSource \/ ImagesReturn \/ ImagesSaveRaises

SpecImages == ImagesInit /\ [][ImagesNext]_vars

-----------------------------------------------------------------------------
(* compress_pdf_stream *)

CompressOutput(buffer, n, skipped, reason, name) ==
    [returned |-> TRUE, buffer |-> buffer, pages |-> n, skipped |-> skipped,
     skipped_reason |-> reason, source_name |-> name]

CompressInit ==
    /\ op = "compress_pdf_stream"
    /\ pc = "open"
    /\ inputs \in InputSeqs(1)
    /\ default_password \in DefaultPasswords
    /\ NoFilesystem
    /\ FreshRun

\* lines 291-324: PdfReader(stream), then the candidate passwords
CompressOpen ==
    /\ op = "compress_pdf_stream" /\ pc = "open"
    /\ \E codec \in CodecStyles :
        LET pdf_input == inputs[1]
            doc == pdf_input.doc
            unlock == IF doc.kind = "encrypted"
                      THEN UnlockLoop(doc, passwords_to_try(pdf_input, default_password),
                                      codec, <<>>)
                      ELSE [unlocked |-> TRUE, tried |-> <<>>]
        IN  /\ idx' = 1
            /\ prompts' = Append(prompts, <<>>)
            /\ IF doc.kind = "corrupt"
               THEN /\ attempts' = Append(attempts, <<>>)
                    /\ pc' = "returned"
                    /\ result' = CompressOutput(NoBuffer, 0, TRUE, "Unable to read PDF",
                                                pdf_input.name)
               ELSE /\ attempts' = Append(attempts, unlock.tried)
                    /\ IF ~unlock.unlocked
                       THEN /\ pc' = "returned"
                            /\ result' = CompressOutput(NoBuffer, 0, TRUE,
                                             "Password required or incorrect",
                                             pdf_input.name)
                       ELSE /\ pc' = "pages"
                            /\ UNCHANGED result
    /\ UNCHANGED <<args, counters, fsVars, writer, pages, processed_entries>>

AddPageOnlyIfCompressed(w, p, compressed) ==
    IF compressed THEN Append(w, [src |-> 1, page |-> p, compressed |-> TRUE]) ELSE w

\* lines 330-335: the page is added whether or not its compression raised
AddPage(w, p, compressed) ==
    Append(w, [src |-> 1, page |-> p, compressed |-> compressed])

\* one iteration of "for page in reader.pages"; add_page is outside the try,
\* so a page it rejects ends the call with that exception
CompressPage ==
    /\ op = "compress_pdf_stream" /\ pc = "pages"
    /\ pages < inputs[1].doc.pages
    /\ \E compressed \in BOOLEAN :
        IF inputs[1].doc.bad_page = pages + 1
        THEN pc' = "raised" /\ UNCHANGED <<writer, pages>>
        ELSE /\ writer' = AddPage(writer, pages + 1, compressed)
             /\ pages' = pages + 1
             /\ UNCHANGED pc
    /\ UNCHANGED <<args, counters, fsVars, idx, processed_entries, result,
                   attempts, prompts>>

CompressWriteFailureKeepsBuffer(written, w, n, name) ==
    IF written
    THEN CompressOutput(Buffer(w), n, FALSE, None, name)
    ELSE CompressOutput(Buffer(w), n, TRUE, "Failed to write compressed PDF", name)

\* lines 347-366: what is returned after writer.write raised or succeeded
CompressWriteResult(written, w, n, name) ==
    IF written
    THEN CompressOutput(Buffer(w), n, FALSE, None, name)
    ELSE CompressOutput(NoBuffer, n, TRUE, "Failed to write compressed PDF", name)

\* lines 338-366: metadata dropped (best effort), then writer.write
CompressWrite ==
    /\ op = "compress_pdf_stream" /\ pc = "pages"
    /\ pages = inputs[1].doc.pages
    /\ pc' = "returned"
    /\ \E written \in BOOLEAN :
        result' = CompressWriteResult(written, writer, pages, inputs[1].name)
    /\ UNCHANGED <<args, counters, fsVars, idx, writer, pages, processed_entries,
                   attempts, prompts>>

CompressNext == CompressOpen \/ CompressPage \/ CompressWrite

SpecCompress == CompressInit /\ [][CompressNext]_vars

-----------------------------------------------------------------------------
(* natural_key and the ordering of merge_pdfs.  A file name is the sequence
   of its characters' code points: "f2" is <<102, 50>>. *)

\* the zero of every run of ten decimal digits (Unicode category Nd), which
\* is what \d matches in a str pattern and what int() reads

DecimalZeros ==
   {48, 1632, 1776, 1984, 2406, 2534, 2662, 2790, 2918, 3046, 3174, 3302,
    3430, 3558, 3664, 3792, 3872, 4160, 4240, 6112, 6160, 6470, 6608, 6784,
    6800, 6992, 7088, 7232, 7248, 42528, 43216, 43264, 43472, 43504, 43600,
    44016, 65296, 66720, 68912, 69734, 69872, 69942, 70096, 70384, 70736,
    70864, 71248, 71360, 71472, 71904, 72016, 72784, 73040, 73120, 92768,
    92864, 93008, 120782, 120792, 120802, 120812, 120822, 123200, 123632,
    125264, 130032}

\* the other characters str.isdigit accepts (superscripts, circled digits...),
\* as ranges of code points; int() rejects them

OtherDigitRanges ==
   {<<178, 179>>, <<185, 185>>, <<4969, 4977>>, <<6618, 6618>>, <<8304,
    8304>>, <<8308, 8313>>, <<8320, 8329>>, <<9312, 9320>>, <<9332, 9340>>,
    <<9352, 9360>>, <<9450, 9450>>, <<9461, 9469>>, <<9471, 9471>>, <<10102,
    10110>>, <<10112, 10120>>, <<10122, 10130>>, <<68160, 68163>>, <<69216,
    69224>>, <<69714, 69722>>, <<127232, 127242>>}

\* the characters str.lower maps to one other character: <<first, last, step,
\* offset>> stands for first, first + step, ..., last, each lowered by adding
\* the offset

LowerRanges ==
   {<<65, 90, 1, 32>>, <<192, 214, 1, 32>>, <<216, 222, 1, 32>>, <<256, 302,
    2, 1>>, <<306, 310, 2, 1>>, <<313, 327, 2, 1>>, <<330, 374, 2, 1>>, <<376,
    376, 1, -121>>, <<377, 381, 2, 1>>, <<385, 385, 1, 210>>, <<386, 388, 2,
    1>>, <<390, 390, 1, 206>>, <<391, 391, 1, 1>>, <<393, 394, 1, 205>>,
    <<395, 395, 1, 1>>, <<398, 398, 1, 79>>, <<399, 399, 1, 202>>, <<400, 400,
    1, 203>>, <<401, 401, 1, 1>>, <<403, 403, 1, 205>>, <<404, 404, 1, 207>>,
    <<406, 406, 1, 211>>, <<407, 407, 1, 209>>, <<408, 408, 1, 1>>, <<412,
    412, 1, 211>>, <<413, 413, 1, 213>>, <<415, 415, 1, 214>>, <<416, 420, 2,
    1>>, <<422, 422, 1, 218>>, <<423, 423, 1, 1>>, <<425, 425, 1, 218>>,
    <<428, 428, 1, 1>>, <<430, 430, 1, 218>>, <<431, 431, 1, 1>>, <<433, 434,
    1, 217>>, <<435, 437, 2, 1>>, <<439, 439, 1, 219>>, <<440, 440, 1, 1>>,
    <<444, 444, 1, 1>>, <<452, 452, 1, 2>>, <<453, 453, 1, 1>>, <<455, 455, 1,
    2>>, <<456, 456, 1, 1>>, <<458, 458, 1, 2>>, <<459, 475, 2, 1>>, <<478,
    494, 2, 1>>, <<497, 497, 1, 2>>, <<498, 500, 2, 1>>, <<502, 502, 1, -97>>,
    <<503, 503, 1, -56>>, <<504, 542, 2, 1>>, <<544, 544, 1, -130>>, <<546,
    562, 2, 1>>, <<570, 570, 1, 10795>>, <<571, 571, 1, 1>>, <<573, 573, 1,
    -163>>, <<574, 574, 1, 10792>>, <<577, 577, 1, 1>>, <<579, 579, 1, -195>>,
    <<580, 580, 1, 69>>, <<581, 581, 1, 71>>, <<582, 590, 2, 1>>, <<880, 882,
    2, 1>>, <<886, 886, 1, 1>>, <<895, 895, 1, 116>>, <<902, 902, 1, 38>>,
    <<904, 906, 1, 37>>, <<908, 908, 1, 64>>, <<910, 911, 1, 63>>, <<913, 929,
    1, 32>>, <<931, 939, 1, 32>>, <<975, 975, 1, 8>>, <<984, 1006, 2, 1>>,
    <<1012, 1012, 1, -60>>, <<1015, 1015, 1, 1>>, <<1017, 1017, 1, -7>>,
    <<1018, 1018, 1, 1>>, <<1021, 1023, 1, -130>>, <<1024, 1039, 1, 80>>,
    <<1040, 1071, 1, 32>>, <<1120, 1152, 2, 1>>, <<1162, 1214, 2, 1>>, <<1216,
    1216, 1, 15>>, <<1217, 1229, 2, 1>>, <<1232, 1326, 2, 1>>, <<1329, 1366,
    1, 48>>, <<4256, 4293, 1, 7264>>, <<4295, 4295, 1, 7264>>, <<4301, 4301,
    1, 7264>>, <<5024, 5103, 1, 38864>>, <<5104, 5109, 1, 8>>, <<7312, 7354,
    1, -3008>>, <<7357, 7359, 1, -3008>>, <<7680, 7828, 2, 1>>, <<7838, 7838,
    1, -7615>>, <<7840, 7934, 2, 1>>, <<7944, 7951, 1, -8>>, <<7960, 7965, 1,
    -8>>, <<7976, 7983, 1, -8>>, <<7992, 7999, 1, -8>>, <<8008, 8013, 1, -8>>,
    <<8025, 8031, 2, -8>>, <<8040, 8047, 1, -8>>, <<8072, 8079, 1, -8>>,
    <<8088, 8095, 1, -8>>, <<8104, 8111, 1, -8>>, <<8120, 8121, 1, -8>>,
    <<8122, 8123, 1, -74>>, <<8124, 8124, 1, -9>>, <<8136, 8139, 1, -86>>,
    <<8140, 8140, 1, -9>>, <<8152, 8153, 1, -8>>, <<8154, 8155, 1, -100>>,
    <<8168, 8169, 1, -8>>, <<8170, 8171, 1, -112>>, <<8172, 8172, 1, -7>>,
    <<8184, 8185, 1, -128>>, <<8186, 8187, 1, -126>>, <<8188, 8188, 1, -9>>,
    <<8486, 8486, 1, -7517>>, <<8490, 8490, 1, -8383>>, <<8491, 8491, 1,
    -8262>>, <<8498, 8498, 1, 28>>, <<8544, 8559, 1, 16>>, <<8579, 8579, 1,
    1>>, <<9398, 9423, 1, 26>>, <<11264, 11311, 1, 48>>, <<11360, 11360, 1,
    1>>, <<11362, 11362, 1, -10743>>, <<11363, 11363, 1, -3814>>, <<11364,
    11364, 1, -10727>>, <<11367, 11371, 2, 1>>, <<11373, 11373, 1, -10780>>,
    <<11374, 11374, 1, -10749>>, <<11375, 11375, 1, -10783>>, <<11376, 11376,
    1, -10782>>, <<11378, 11378, 1, 1>>, <<11381, 11381, 1, 1>>, <<11390,
    11391, 1, -10815>>, <<11392, 11490, 2, 1>>, <<11499, 11501, 2, 1>>,
    <<11506, 11506, 1, 1>>, <<42560, 42604, 2, 1>>, <<42624, 42650, 2, 1>>,
    <<42786, 42798, 2, 1>>, <<42802, 42862, 2, 1>>, <<42873, 42875, 2, 1>>,
    <<42877, 42877, 1, -35332>>, <<42878, 42886, 2, 1>>, <<42891, 42891, 1,
    1>>, <<42893, 42893, 1, -42280>>, <<42896, 42898, 2, 1>>, <<42902, 42920,
    2, 1>>, <<42922, 42922, 1, -42308>>, <<42923, 42923, 1, -42319>>, <<42924,
    42924, 1, -42315>>, <<42925, 42925, 1, -42305>>, <<42926, 42926, 1,
    -42308>>, <<42928, 42928, 1, -42258>>, <<42929, 42929, 1, -42282>>,
    <<42930, 42930, 1, -42261>>, <<42931, 42931, 1, 928>>, <<42932, 42946, 2,
    1>>, <<42948, 42948, 1, -48>>, <<42949, 42949, 1, -42307>>, <<42950,
    42950, 1, -35384>>, <<42951, 42953, 2, 1>>, <<42960, 42960, 1, 1>>,
    <<42966, 42968, 2, 1>>, <<42997, 42997, 1, 1>>, <<65313, 65338, 1, 32>>,
    <<66560, 66599, 1, 40>>, <<66736, 66771, 1, 40>>, <<66928, 66938, 1, 39>>,
    <<66940, 66954, 1, 39>>, <<66956, 66962, 1, 39>>, <<66964, 66965, 1, 39>>,
    <<68736, 68786, 1, 64>>, <<71840, 71871, 1, 32>>, <<93760, 93791, 1, 32>>,
    <<125184, 125217, 1, 34>>}

\* the cased characters that are not case-ignorable, as ranges

CasedRanges ==
   {<<65, 90>>, <<97, 122>>, <<170, 170>>, <<181, 181>>, <<186, 186>>, <<192,
    214>>, <<216, 246>>, <<248, 442>>, <<444, 447>>, <<452, 659>>, <<661,
    687>>, <<880, 883>>, <<886, 887>>, <<891, 893>>, <<895, 895>>, <<902,
    902>>, <<904, 906>>, <<908, 908>>, <<910, 929>>, <<931, 1013>>, <<1015,
    1153>>, <<1162, 1327>>, <<1329, 1366>>, <<1376, 1416>>, <<4256, 4293>>,
    <<4295, 4295>>, <<4301, 4301>>, <<4304, 4346>>, <<4349, 4351>>, <<5024,
    5109>>, <<5112, 5117>>, <<7296, 7304>>, <<7312, 7354>>, <<7357, 7359>>,
    <<7424, 7467>>, <<7531, 7543>>, <<7545, 7578>>, <<7680, 7957>>, <<7960,
    7965>>, <<7968, 8005>>, <<8008, 8013>>, <<8016, 8023>>, <<8025, 8025>>,
    <<8027, 8027>>, <<8029, 8029>>, <<8031, 8061>>, <<8064, 8116>>, <<8118,
    8124>>, <<8126, 8126>>, <<8130, 8132>>, <<8134, 8140>>, <<8144, 8147>>,
    <<8150, 8155>>, <<8160, 8172>>, <<8178, 8180>>, <<8182, 8188>>, <<8450,
    8450>>, <<8455, 8455>>, <<8458, 8467>>, <<8469, 8469>>, <<8473, 8477>>,
    <<8484, 8484>>, <<8486, 8486>>, <<8488, 8488>>, <<8490, 8493>>, <<8495,
    8500>>, <<8505, 8505>>, <<8508, 8511>>, <<8517, 8521>>, <<8526, 8526>>,
    <<8544, 8575>>, <<8579, 8580>>, <<9398, 9449>>, <<11264, 11387>>, <<11390,
    11492>>, <<11499, 11502>>, <<11506, 11507>>, <<11520, 11557>>, <<11559,
    11559>>, <<11565, 11565>>, <<42560, 42605>>, <<42624, 42651>>, <<42786,
    42863>>, <<42865, 42887>>, <<42891, 42894>>, <<42896, 42954>>, <<42960,
    42961>>, <<42963, 42963>>, <<42965, 42969>>, <<42997, 42998>>, <<43002,
    43002>>, <<43824, 43866>>, <<43872, 43880>>, <<43888, 43967>>, <<64256,
    64262>>, <<64275, 64279>>, <<65313, 65338>>, <<65345, 65370>>, <<66560,
    66639>>, <<66736, 66771>>, <<66776, 66811>>, <<66928, 66938>>, <<66940,
    66954>>, <<66956, 66962>>, <<66964, 66965>>, <<66967, 66977>>, <<66979,
    66993>>, <<66995, 67001>>, <<67003, 67004>>, <<68736, 68786>>, <<68800,
    68850>>, <<71840, 71903>>, <<93760, 93823>>, <<119808, 119892>>, <<119894,
    119964>>, <<119966, 119967>>, <<119970, 119970>>, <<119973, 119974>>,
    <<119977, 119980>>, <<119982, 119993>>, <<119995, 119995>>, <<119997,
    120003>>, <<120005, 120069>>, <<120071, 120074>>, <<120077, 120084>>,
    <<120086, 120092>>, <<120094, 120121>>, <<120123, 120126>>, <<120128,
    120132>>, <<120134, 120134>>, <<120138, 120144>>, <<120146, 120485>>,
    <<120488, 120512>>, <<120514, 120538>>, <<120540, 120570>>, <<120572,
    120596>>, <<120598, 120628>>, <<120630, 120654>>, <<120656, 120686>>,
    <<120688, 120712>>, <<120714, 120744>>, <<120746, 120770>>, <<120772,
    120779>>, <<122624, 122633>>, <<122635, 122654>>, <<125184, 125251>>,
    <<127280, 127305>>, <<127312, 127337>>, <<127344, 127369>>}

\* the case-ignorable characters, as ranges

CaseIgnorableRanges ==
   {<<39, 39>>, <<46, 46>>, <<58, 58>>, <<94, 94>>, <<96, 96>>, <<168, 168>>,
    <<173, 173>>, <<175, 175>>, <<180, 180>>, <<183, 184>>, <<688, 879>>,
    <<884, 885>>, <<890, 890>>, <<900, 901>>, <<903, 903>>, <<1155, 1161>>,
    <<1369, 1369>>, <<1375, 1375>>, <<1425, 1469>>, <<1471, 1471>>, <<1473,
    1474>>, <<1476, 1477>>, <<1479, 1479>>, <<1524, 1524>>, <<1536, 1541>>,
    <<1552, 1562>>, <<1564, 1564>>, <<1600, 1600>>, <<1611, 1631>>, <<1648,
    1648>>, <<1750, 1757>>, <<1759, 1768>>, <<1770, 1773>>, <<1807, 1807>>,
    <<1809, 1809>>, <<1840, 1866>>, <<1958, 1968>>, <<2027, 2037>>, <<2042,
    2042>>, <<2045, 2045>>, <<2070, 2093>>, <<2137, 2139>>, <<2184, 2184>>,
    <<2192, 2193>>, <<2200, 2207>>, <<2249, 2306>>, <<2362, 2362>>, <<2364,
    2364>>, <<2369, 2376>>, <<2381, 2381>>, <<2385, 2391>>, <<2402, 2403>>,
    <<2417, 2417>>, <<2433, 2433>>, <<2492, 2492>>, <<2497, 2500>>, <<2509,
    2509>>, <<2530, 2531>>, <<2558, 2558>>, <<2561, 2562>>, <<2620, 2620>>,
    <<2625, 2626>>, <<2631, 2632>>, <<2635, 2637>>, <<2641, 2641>>, <<2672,
    2673>>, <<2677, 2677>>, <<2689, 2690>>, <<2748, 2748>>, <<2753, 2757>>,
    <<2759, 2760>>, <<2765, 2765>>, <<2786, 2787>>, <<2810, 2815>>, <<2817,
    2817>>, <<2876, 2876>>, <<2879, 2879>>, <<2881, 2884>>, <<2893, 2893>>,
    <<2901, 2902>>, <<2914, 2915>>, <<2946, 2946>>, <<3008, 3008>>, <<3021,
    3021>>, <<3072, 3072>>, <<3076, 3076>>, <<3132, 3132>>, <<3134, 3136>>,
    <<3142, 3144>>, <<3146, 3149>>, <<3157, 3158>>, <<3170, 3171>>, <<3201,
    3201>>, <<3260, 3260>>, <<3263, 3263>>, <<3270, 3270>>, <<3276, 3277>>,
    <<3298, 3299>>, <<3328, 3329>>, <<3387, 3388>>, <<3393, 3396>>, <<3405,
    3405>>, <<3426, 3427>>, <<3457, 3457>>, <<3530, 3530>>, <<3538, 3540>>,
    <<3542, 3542>>, <<3633, 3633>>, <<3636, 3642>>, <<3654, 3662>>, <<3761,
    3761>>, <<3764, 3772>>, <<3782, 3782>>, <<3784, 3789>>, <<3864, 3865>>,
    <<3893, 3893>>, <<3895, 3895>>, <<3897, 3897>>, <<3953, 3966>>, <<3968,
    3972>>, <<3974, 3975>>, <<3981, 3991>>, <<3993, 4028>>, <<4038, 4038>>,
    <<4141, 4144>>, <<4146, 4151>>, <<4153, 4154>>, <<4157, 4158>>, <<4184,
    4185>>, <<4190, 4192>>, <<4209, 4212>>, <<4226, 4226>>, <<4229, 4230>>,
    <<4237, 4237>>, <<4253, 4253>>, <<4348, 4348>>, <<4957, 4959>>, <<5906,
    5908>>, <<5938, 5939>>, <<5970, 5971>>, <<6002, 6003>>, <<6068, 6069>>,
    <<6071, 6077>>, <<6086, 6086>>, <<6089, 6099>>, <<6103, 6103>>, <<6109,
    6109>>, <<6155, 6159>>, <<6211, 6211>>, <<6277, 6278>>, <<6313, 6313>>,
    <<6432, 6434>>, <<6439, 6440>>, <<6450, 6450>>, <<6457, 6459>>, <<6679,
    6680>>, <<6683, 6683>>, <<6742, 6742>>, <<6744, 6750>>, <<6752, 6752>>,
    <<6754, 6754>>, <<6757, 6764>>, <<6771, 6780>>, <<6783, 6783>>, <<6823,
    6823>>, <<6832, 6862>>, <<6912, 6915>>, <<6964, 6964>>, <<6966, 6970>>,
    <<6972, 6972>>, <<6978, 6978>>, <<7019, 7027>>, <<7040, 7041>>, <<7074,
    7077>>, <<7080, 7081>>, <<7083, 7085>>, <<7142, 7142>>, <<7144, 7145>>,
    <<7149, 7149>>, <<7151, 7153>>, <<7212, 7219>>, <<7222, 7223>>, <<7288,
    7293>>, <<7376, 7378>>, <<7380, 7392>>, <<7394, 7400>>, <<7405, 7405>>,
    <<7412, 7412>>, <<7416, 7417>>, <<7468, 7530>>, <<7544, 7544>>, <<7579,
    7679>>, <<8125, 8125>>, <<8127, 8129>>, <<8141, 8143>>, <<8157, 8159>>,
    <<8173, 8175>>, <<8189, 8190>>, <<8203, 8207>>, <<8216, 8217>>, <<8228,
    8228>>, <<8231, 8231>>, <<8234, 8238>>, <<8288, 8292>>, <<8294, 8303>>,
    <<8305, 8305>>, <<8319, 8319>>, <<8336, 8348>>, <<8400, 8432>>, <<11388,
    11389>>, <<11503, 11505>>, <<11631, 11631>>, <<11647, 11647>>, <<11744,
    11775>>, <<11823, 11823>>, <<12293, 12293>>, <<12330, 12333>>, <<12337,
    12341>>, <<12347, 12347>>, <<12441, 12446>>, <<12540, 12542>>, <<40981,
    40981>>, <<42232, 42237>>, <<42508, 42508>>, <<42607, 42610>>, <<42612,
    42621>>, <<42623, 42623>>, <<42652, 42655>>, <<42736, 42737>>, <<42752,
    42785>>, <<42864, 42864>>, <<42888, 42890>>, <<42994, 42996>>, <<43000,
    43001>>, <<43010, 43010>>, <<43014, 43014>>, <<43019, 43019>>, <<43045,
    43046>>, <<43052, 43052>>, <<43204, 43205>>, <<43232, 43249>>, <<43263,
    43263>>, <<43302, 43309>>, <<43335, 43345>>, <<43392, 43394>>, <<43443,
    43443>>, <<43446, 43449>>, <<43452, 43453>>, <<43471, 43471>>, <<43493,
    43494>>, <<43561, 43566>>, <<43569, 43570>>, <<43573, 43574>>, <<43587,
    43587>>, <<43596, 43596>>, <<43632, 43632>>, <<43644, 43644>>, <<43696,
    43696>>, <<43698, 43700>>, <<43703, 43704>>, <<43710, 43711>>, <<43713,
    43713>>, <<43741, 43741>>, <<43756, 43757>>, <<43763, 43764>>, <<43766,
    43766>>, <<43867, 43871>>, <<43881, 43883>>, <<44005, 44005>>, <<44008,
    44008>>, <<44013, 44013>>, <<64286, 64286>>, <<64434, 64450>>, <<65024,
    65039>>, <<65043, 65043>>, <<65056, 65071>>, <<65106, 65106>>, <<65109,
    65109>>, <<65279, 65279>>, <<65287, 65287>>, <<65294, 65294>>, <<65306,
    65306>>, <<65342, 65342>>, <<65344, 65344>>, <<65392, 65392>>, <<65438,
    65439>>, <<65507, 65507>>, <<65529, 65531>>, <<66045, 66045>>, <<66272,
    66272>>, <<66422, 66426>>, <<67456, 67461>>, <<67463, 67504>>, <<67506,
    67514>>, <<68097, 68099>>, <<68101, 68102>>, <<68108, 68111>>, <<68152,
    68154>>, <<68159, 68159>>, <<68325, 68326>>, <<68900, 68903>>, <<69291,
    69292>>, <<69446, 69456>>, <<69506, 69509>>, <<69633, 69633>>, <<69688,
    69702>>, <<69744, 69744>>, <<69747, 69748>>, <<69759, 69761>>, <<69811,
    69814>>, <<69817, 69818>>, <<69821, 69821>>, <<69826, 69826>>, <<69837,
    69837>>, <<69888, 69890>>, <<69927, 69931>>, <<69933, 69940>>, <<70003,
    70003>>, <<70016, 70017>>, <<70070, 70078>>, <<70089, 70092>>, <<70095,
    70095>>, <<70191, 70193>>, <<70196, 70196>>, <<70198, 70199>>, <<70206,
    70206>>, <<70367, 70367>>, <<70371, 70378>>, <<70400, 70401>>, <<70459,
    70460>>, <<70464, 70464>>, <<70502, 70508>>, <<70512, 70516>>, <<70712,
    70719>>, <<70722, 70724>>, <<70726, 70726>>, <<70750, 70750>>, <<70835,
    70840>>, <<70842, 70842>>, <<70847, 70848>>, <<70850, 70851>>, <<71090,
    71093>>, <<71100, 71101>>, <<71103, 71104>>, <<71132, 71133>>, <<71219,
    71226>>, <<71229, 71229>>, <<71231, 71232>>, <<71339, 71339>>, <<71341,
    71341>>, <<71344, 71349>>, <<71351, 71351>>, <<71453, 71455>>, <<71458,
    71461>>, <<71463, 71467>>, <<71727, 71735>>, <<71737, 71738>>, <<71995,
    71996>>, <<71998, 71998>>, <<72003, 72003>>, <<72148, 72151>>, <<72154,
    72155>>, <<72160, 72160>>, <<72193, 72202>>, <<72243, 72248>>, <<72251,
    72254>>, <<72263, 72263>>, <<72273, 72278>>, <<72281, 72283>>, <<72330,
    72342>>, <<72344, 72345>>, <<72752, 72758>>, <<72760, 72765>>, <<72767,
    72767>>, <<72850, 72871>>, <<72874, 72880>>, <<72882, 72883>>, <<72885,
    72886>>, <<73009, 73014>>, <<73018, 73018>>, <<73020, 73021>>, <<73023,
    73029>>, <<73031, 73031>>, <<73104, 73105>>, <<73109, 73109>>, <<73111,
    73111>>, <<73459, 73460>>, <<78896, 78904>>, <<92912, 92916>>, <<92976,
    92982>>, <<92992, 92995>>, <<94031, 94031>>, <<94095, 94111>>, <<94176,
    94177>>, <<94179, 94180>>, <<110576, 110579>>, <<110581, 110587>>,
    <<110589, 110590>>, <<113821, 113822>>, <<113824, 113827>>, <<118528,
    118573>>, <<118576, 118598>>, <<119143, 119145>>, <<119155, 119170>>,
    <<119173, 119179>>, <<119210, 119213>>, <<119362, 119364>>, <<121344,
    121398>>, <<121403, 121452>>, <<121461, 121461>>, <<121476, 121476>>,
    <<121499, 121503>>, <<121505, 121519>>, <<122880, 122886>>, <<122888,
    122904>>, <<122907, 122913>>, <<122915, 122916>>, <<122918, 122922>>,
    <<123184, 123197>>, <<123566, 123566>>, <<123628, 123631>>, <<125136,
    125142>>, <<125252, 125259>>, <<127995, 127999>>, <<917505, 917505>>,
    <<917536, 917631>>, <<917760, 917999>>}

InRanges(c, ranges) == \E r \in ranges : c \in r[1]..r[2]

\* \d of a str pattern: any Unicode decimal digit
IsDigit(c) ==
    IF c < 128 THEN c \in 48..57 ELSE \E z \in DecimalZeros : c \in z..(z + 9)

\* the value int() gives a decimal digit
DigitValue(c) ==
    IF c < 128 THEN c - 48 ELSE c - (CHOOSE z \in DecimalZeros : c \in z..(z + 9))

\* str.isdigit of one character: a decimal digit or one of the other digits
IsDigitChar(c) == IsDigit(c) \/ (c >= 128 /\ InRanges(c, OtherDigitRanges))

\* the characters str.lower changes
IsUpper(c) ==
    IF c < 128 THEN c \in 65..90
    ELSE \/ c = 304
         \/ \E r \in LowerRanges : c \in r[1]..r[2] /\ (c - r[1]) % r[3] = 0

\* str.lower of one character out of context: U+0130 becomes two characters
LowerChar(c) ==
    IF c < 128 THEN (IF c \in 65..90 THEN <<c + 32>> ELSE <<c>>)
    ELSE IF c = 304 THEN <<105, 775>>
    ELSE IF IsUpper(c)
         THEN LET r == CHOOSE r \in LowerRanges :
                           c \in r[1]..r[2] /\ (c - r[1]) % r[3] = 0
              IN  <<c + r[4]>>
         ELSE <<c>>

\* the nearest character before (step = -1) or after (step = 1) position k
\* that is not case-ignorable is a cased one
RECURSIVE CasedNeighbour(_, _, _)
CasedNeighbour(text, k, step) ==
    IF k + step < 1 \/ k + step > Len(text) THEN FALSE
    ELSE IF InRanges(text[k + step], CaseIgnorableRanges)
         THEN CasedNeighbour(text, k + step, step)
         ELSE InRanges(text[k + step], CasedRanges)

\* a capital sigma (U+03A3) lowers to the final sigma U+03C2 after a cased
\* letter when no cased letter follows, else to U+03C3
LowerAt(text, k) ==
    IF text[k] # 931 THEN LowerChar(text[k])
    ELSE IF CasedNeighbour(text, k, -1) /\ ~CasedNeighbour(text, k, 1)
         THEN <<962>> ELSE <<963>>

RECURSIVE LowerFrom(_, _)
LowerFrom(text, k) ==
    IF k > Len(text) THEN <<>> ELSE LowerAt(text, k) \o LowerFrom(text, k + 1)

\* str.lower
lower(text) ==
    IF \A k \in 1..Len(text) : text[k] < 128
    THEN [k \in 1..Len(text) |-> IF IsUpper(text[k]) THEN text[k] + 32 ELSE text[k]]
    ELSE LowerFrom(text, 1)

\* str.isdigit
isdigit(text) == text # <<>> /\ \A k \in 1..Len(text) : IsDigitChar(text[k])

\* ValueError, raised by int() and so by natural_key
ValueError == <<[raised |-> "ValueError"]>>

RECURSIVE DecimalValue(_)
DecimalValue(text) ==
    IF text = <<>> THEN 0
    ELSE 10 * DecimalValue(SubSeq(text, 1, Len(text) - 1)) + DigitValue(text[Len(text)])

IsDecimalText(text) == text # <<>> /\ \A k \in 1..Len(text) : IsDigit(text[k])

\* int(text) of a text str.isdigit accepts: the number its decimal digits
\* write, ValueError when one of its digits is not a decimal digit
int(text) == IF IsDecimalText(text) THEN DecimalValue(text) ELSE ValueError

\* re.split(r"(\d+)", value): the text between the maximal digit runs and the
\* runs themselves, alternating, text first and last (empty where there is none)
RECURSIVE ReSplit(_, _, _, _)
ReSplit(value, segments, current, inDigits) ==
    IF value = <<>>
    THEN IF inDigits THEN segments \o <<current, <<>>>> ELSE Append(segments, current)
    ELSE IF IsDigit(Head(value)) = inDigits
         THEN ReSplit(Tail(value), segments, Append(current, Head(value)), inDigits)
         ELSE ReSplit(Tail(value), Append(segments, current), <<Head(value)>>, ~inDigits)

re_split(value) == ReSplit(value, <<>>, <<>>, FALSE)

\* an element of the key list: a Python int or a Python str
PyInt(n) == [int |-> TRUE, val |-> n]
PyStr(text) == [int |-> FALSE, text |-> text]

natural_key_as_text(value) ==
    LET parts == re_split(value)
    IN  [k \in 1..Len(parts) |-> PyStr(lower(parts[k]))]

\* a part str.isdigit accepts goes through int(), which raises on a digit
\* that is not decimal: the part is then a run of such digits, as the
\* decimal runs are parts of their own
natural_key(value) ==
    LET parts == re_split(value)
    IN  IF \E k \in 1..Len(parts) : isdigit(parts[k]) /\ ~IsDecimalText(parts[k])
        THEN ValueError
        ELSE [k \in 1..Len(parts) |->
                IF isdigit(parts[k]) THEN PyInt(int(parts[k]))
                ELSE PyStr(lower(parts[k]))]

\* str < str: by code point, a proper prefix first
RECURSIVE StrLess(_, _)
StrLess(a, b) ==
    IF b = <<>> THEN FALSE
    ELSE IF a = <<>> THEN TRUE
    ELSE IF Head(a) # Head(b) THEN Head(a) < Head(b)
    ELSE StrLess(Tail(a), Tail(b))

ElemLess(x, y) == IF x.int THEN x.val < y.val ELSE StrLess(x.text, y.text)

\* list < list: decided by the first pair of elements that differ
RECURSIVE ListLess(_, _)
ListLess(a, b) ==
    IF b = <<>> THEN FALSE
    ELSE IF a = <<>> THEN TRUE
    ELSE IF Head(a) # Head(b) THEN ElemLess(Head(a), Head(b))
    ELSE ListLess(Tail(a), Tail(b))

\* the key merge_pdfs sorts a path by: its mtime, or natural_key(basename)
SortKey(file, mode) ==
    IF mode = "mtime" THEN <<PyInt(file.mtime)>> ELSE natural_key(file.name)

\* sorted(): stable, an element goes after those whose key is not greater
RECURSIVE InsertByKey(_, _, _)
InsertByKey(file, sorted, mode) ==
    IF sorted = <<>> THEN <<file>>
    ELSE IF ListLess(SortKey(file, mode), SortKey(Head(sorted), mode))
         THEN <<file>> \o sorted
         ELSE <<Head(sorted)>> \o InsertByKey(file, Tail(sorted), mode)

RECURSIVE SortFrom(_, _, _)
SortFrom(files, sorted, mode) ==
    IF files = <<>> THEN sorted
    ELSE SortFrom(Tail(files), InsertByKey(Head(files), sorted, mode), mode)

\* lines 378-381
Sorted(files, mode) == SortFrom(files, <<>>, mode)

\* sorted() computes every key first: natural_key raising ends the sort
SortRaises(files, mode) ==
    mode # "mtime" /\ \E k \in 1..Len(files) : natural_key(files[k].name) = ValueError

-----------------------------------------------------------------------------
(* merge_pdfs: pdfmerger/core.py (op = "merge_pdfs") and the copy in
   merge_unprotect_pdfs.py that main drives (op = "script").  The two differ
   in how they prompt. *)

\* the files of a folder, of one page each: unreadable, plain, or encrypted
\* with a user password that may be the empty string; the page that
\* add_page rejects is tried on the plain file and on one encrypted file
FileDocs ==
    CorruptDocs \cup ReadableDocs("plain", {None}, 1)
                \cup ReadableDocs("encrypted", {"a"}, 1)
                \cup {d \in ReadableDocs("encrypted", {""}, 1) : d.bad_page = 0}

\* ".pdf": discover_pdfs lists only names with this ending
DotPdf == <<46, 112, 100, 102>>

\* "f10.pdf", "F2.pdf", "f1.pdf", "f01.pdf": the k-th path discovery lists,
\* and its mtime
NamePool == << <<102, 49, 48>>, <<70, 50>>, <<102, 49>>, <<102, 48, 49>> >>
MtimePool == <<2, 3, 1, 2>>
PoolName(k) == NamePool[((k - 1) % Len(NamePool)) + 1] \o DotPdf
PoolMtime(k) == MtimePool[((k - 1) % Len(MtimePool)) + 1]

\* "\u00b21.pdf": SUPERSCRIPT TWO is a digit to str.isdigit and none to int()
SuperscriptName == <<178, 49>> \o DotPdf

\* the first path may carry that name instead
NameChoices(k) == IF k = 1 THEN {PoolName(1), SuperscriptName} ELSE {PoolName(k)}

FileSeqs(n) ==
    {s \in [1..n -> [name : UNION {NameChoices(k) : k \in 1..n},
                     mtime : {PoolMtime(k) : k \in 1..n}, doc : FileDocs]] :
        \A k \in 1..n : s[k].name \in NameChoices(k) /\ s[k].mtime = PoolMtime(k)}

\* the odd name is tried where it matters, in the order by name
OddNameInNameOrder ==
    (inputs # <<>> /\ inputs[1].name = SuperscriptName) => order_mode = "name"

\* what the user types at getpass
Responses == {""} \cup Passwords

\* getpass at the end of input raises EOFError instead of returning
EOFError == "<EOFError>"

\* the lines printed
Line(text, file) == [text |-> text, file |-> file]

FsInit ==
    /\ op = "merge_pdfs"
    /\ pc = "sort"
    /\ \E n \in 0..MaxFiles : inputs \in FileSeqs(n)
    /\ default_password \in DefaultPasswords
    /\ prompt_missing_passwords \in BOOLEAN
    /\ order_mode \in {"name", "mtime"}
    /\ OddNameInNameOrder
    /\ folder_exists = TRUE
    /\ FreshRun

InMergePdfs == op \in {"merge_pdfs", "script"}

\* core.py:378-381, script:91-95 (which sorts the list in place)
FsSort ==
    /\ InMergePdfs /\ pc = "sort"
    /\ IF SortRaises(inputs, order_mode)
       THEN pc' = "raised" /\ UNCHANGED sorted_inputs
       ELSE sorted_inputs' = Sorted(inputs, order_mode) /\ pc' = "loop"
    /\ UNCHANGED <<args, counters, output_file, exit_code, stdout, idx, writer,
                   pages, processed_entries, result, attempts, prompts>>

\* for page in reader.pages: writer.add_page(page); merged_count += 1, where an
\* exception is caught by "except Exception": the file counts as skipped
AppendFile(file, k, out) ==
    /\ writer' = writer \o AppendedPages(k, file.doc)
    /\ IF AppendRaises(file.doc)
       THEN /\ skipped_count' = skipped_count + 1
            /\ merged_count' = merged_count
            /\ stdout' = Append(out, Line("Failed to read", file.name))
       ELSE /\ merged_count' = merged_count + 1
            /\ skipped_count' = skipped_count
            /\ stdout' = out

SkipLockedUncounted(file, out) ==
    /\ skipped_count' = skipped_count
    /\ merged_count' = merged_count
    /\ writer' = writer
    /\ stdout' = Append(out, Line("Could not decrypt", file.name))

\* "Could not decrypt (wrong/unknown password). Skipping."
SkipLocked(file, out) ==
    /\ skipped_count' = skipped_count + 1
    /\ merged_count' = merged_count
    /\ writer' = writer
    /\ stdout' = Append(out, Line("Could not decrypt", file.name))

ShouldPromptAlways(unlocked, permitted) == ~unlocked

\* "while not unlocked and prompt_missing_passwords" (script: "if not ok and ...")
ShouldPrompt(unlocked, permitted) == ~unlocked /\ permitted

\* the start of one iteration of "for path in ...": PdfReader(path) and the
\* common password
FsOpenFile ==
    /\ InMergePdfs /\ pc = "loop" /\ idx < Len(sorted_inputs)
    /\ \E codec \in CodecStyles :
        LET k == idx + 1
            file == sorted_inputs[k]
            doc == file.doc
            out == Append(stdout, Line("Processing", file.name))
            password == default_password
            unlocked == Truthy(password) /\ try_decrypt(doc, password, codec)
        IN  /\ prompts' = Append(prompts, <<>>)
            /\ attempts' = Append(attempts,
                   IF doc.kind = "encrypted" /\ Truthy(password)
                   THEN <<password>> ELSE <<>>)
            /\ IF doc.kind = "corrupt"
               THEN /\ skipped_count' = skipped_count + 1
                    /\ stdout' = Append(out, Line("Failed to read", file.name))
                    /\ idx' = k
                    /\ UNCHANGED <<pc, writer, merged_count>>
               ELSE IF doc.kind = "encrypted" /\ ~unlocked
               THEN IF ShouldPrompt(unlocked, prompt_missing_passwords)
                    THEN /\ pc' = "prompt"
                         /\ stdout' = out
                         /\ UNCHANGED <<idx, writer, merged_count, skipped_count>>
                    ELSE /\ SkipLocked(file, out)
                         /\ idx' = k
                         /\ UNCHANGED pc
               ELSE /\ AppendFile(file, k, out)
                    /\ idx' = k
                    /\ UNCHANGED pc
    /\ UNCHANGED <<args, skipped_files, sorted_inputs, output_file, exit_code,
                   pages, processed_entries, result>>

PromptCoreTriesEmpty(file, k, response, codec) ==
    /\ attempts' = [attempts EXCEPT ![k] = Append(@, response)]
    /\ IF try_decrypt(file.doc, response, codec)
       THEN /\ AppendFile(file, k, stdout)
            /\ idx' = k /\ pc' = "loop"
       ELSE UNCHANGED <<idx, pc, writer, merged_count, skipped_count, stdout>>

\* core.py:399-403: ask until a response unlocks the file or is empty
PromptCore(file, k, response, codec) ==
    IF ~Truthy(response)
    THEN /\ SkipLocked(file, stdout)
         /\ idx' = k /\ pc' = "loop"
         /\ UNCHANGED attempts
    ELSE /\ attempts' = [attempts EXCEPT ![k] = Append(@, response)]
         /\ IF try_decrypt(file.doc, response, codec)
            THEN /\ AppendFile(file, k, stdout)
                 /\ idx' = k /\ pc' = "loop"
            ELSE UNCHANGED <<idx, pc, writer, merged_count, skipped_count, stdout>>

\* script:110-116: ask once and try the response, whatever it is
PromptScript(file, k, response, codec) ==
    /\ attempts' = [attempts EXCEPT ![k] = Append(@, response)]
    /\ idx' = k /\ pc' = "loop"
    /\ IF try_decrypt(file.doc, response, codec)
       THEN AppendFile(file, k, stdout)
       ELSE SkipLocked(file, stdout)

\* getpass raised EOFError: "except Exception" takes it for a failure to
\* read the file (core.py:417-419, script:133-135)
PromptEOF(file, k) ==
    /\ skipped_count' = skipped_count + 1
    /\ stdout' = Append(stdout, Line("Failed to read", file.name))
    /\ idx' = k /\ pc' = "loop"
    /\ UNCHANGED <<attempts, writer, merged_count>>

\* one getpass call and what follows it
FsPrompt ==
    /\ InMergePdfs /\ pc = "prompt"
    /\ Len(prompts[idx + 1]) < MaxPrompts
    /\ \E response \in Responses \cup {EOFError}, codec \in CodecStyles :
        LET k == idx + 1
            file == sorted_inputs[k]
        IN  /\ prompts' = [prompts EXCEPT ![k] = Append(@, response)]
            /\ IF response = EOFError
               THEN PromptEOF(file, k)
               ELSE IF op = "merge_pdfs"
               THEN PromptCore(file, k, response, codec)
               ELSE PromptScript(file, k, response, codec)
    /\ UNCHANGED <<args, skipped_files, sorted_inputs, output_file, exit_code,
                   pages, processed_entries, result>>

InterruptNotReraised(out) ==
    /\ pc' = "loop"
    /\ stdout' = Append(out, Line("Aborted by user", <<>>))

\* except KeyboardInterrupt: print "Aborted by user." and raise
InterruptAborts(out) ==
    /\ pc' = "interrupted"
    /\ stdout' = Append(out, Line("Aborted by user", <<>>))

\* KeyboardInterrupt outside the try, or inside "except Exception": nothing
\* handles it
InterruptUnhandled(out) ==
    /\ pc' = "interrupted"
    /\ stdout' = out

\* the pages of file k in the writer when Ctrl-C arrives in writer.add_page
\* or between two of its calls
PartlyAppended(k, doc) ==
    {SubSeq(AppendedPages(k, doc), 1, j) : j \in 0..Len(AppendedPages(k, doc))}

\* what a KeyboardInterrupt in the loop leaves behind: whether "except
\* KeyboardInterrupt" saw it, the lines printed before it, the passwords
\* tried and the responses read, the writer, and whether skipped_count += 1
\* had run for the file
Cut(handled, out, tried, asked, w, counted) ==
    [handled |-> handled, out |-> out, attempts |-> tried, prompts |-> asked,
     writer |-> w, counted |-> counted]

Interrupted(c) ==
    /\ IF c.handled THEN InterruptAborts(c.out) ELSE InterruptUnhandled(c.out)
    /\ attempts' = c.attempts
    /\ prompts' = c.prompts
    /\ writer' = c.writer
    /\ skipped_count' = IF c.counted THEN skipped_count + 1 ELSE skipped_count
    /\ idx' = IF c.counted THEN idx + 1 ELSE idx

\* Ctrl-C inside "except Exception", before or after its print: a sibling
\* "except KeyboardInterrupt" does not see it
HandlerCuts(out, tried, asked, w, file) ==
    {Cut(FALSE, o, tried, asked, w, FALSE) :
        o \in {out, Append(out, Line("Failed to read", file.name))}}

\* Ctrl-C at "if not unlocked" or at "skipped_count += 1", which the try
\* covers, or at "continue": the jump back to the "for" line is outside the
\* try, so the file is counted and nothing handles the interrupt
SkipCuts(out, tried, asked, file) ==
    LET told == Append(out, Line("Could not decrypt", file.name))
    IN  {Cut(TRUE, out, tried, asked, writer, FALSE),
         Cut(TRUE, told, tried, asked, writer, FALSE),
         Cut(FALSE, told, tried, asked, writer, TRUE)}

\* Ctrl-C among the add_page calls or at "merged_count += 1", the earlier
\* files' pages staying in the writer; or in the handler of an add_page that
\* raised
AppendCuts(out, tried, asked, k, file) ==
    {Cut(TRUE, out, tried, asked, writer \o part, FALSE) :
        part \in PartlyAppended(k, file.doc)}
    \cup IF AppendRaises(file.doc)
         THEN HandlerCuts(out, tried, asked,
                          writer \o AppendedPages(k, file.doc), file)
         ELSE {}

\* Ctrl-C from the "for" line to the end of the iteration or to the first
\* prompt: at "for"/relpath/print, which are outside the try, and inside it
\* in PdfReader, in reader.decrypt with the common password and after it
OpenCuts(k, file, codec) ==
    LET doc == file.doc
        out == Append(stdout, Line("Processing", file.name))
        password == default_password
        tries == doc.kind = "encrypted" /\ Truthy(password)
        unlocked == Truthy(password) /\ try_decrypt(doc, password, codec)
        asked == Append(prompts, <<>>)
        none == Append(attempts, <<>>)
        tried == Append(attempts, IF tries THEN <<password>> ELSE <<>>)
    IN  {Cut(FALSE, stdout, attempts, prompts, writer, FALSE),
         Cut(FALSE, out, attempts, prompts, writer, FALSE),
         Cut(TRUE, out, none, asked, writer, FALSE)}
        \cup IF doc.kind = "corrupt"
             THEN HandlerCuts(out, none, asked, writer, file)
             ELSE {Cut(TRUE, out, tried, asked, writer, FALSE)}
                  \cup IF doc.kind = "encrypted" /\ ~unlocked
                       THEN IF ShouldPrompt(unlocked, prompt_missing_passwords)
                            THEN {}
                            ELSE SkipCuts(out, tried, asked, file)
                       ELSE AppendCuts(out, tried, asked, k, file)

FsInterruptOpen ==
    /\ InMergePdfs /\ pc = "loop" /\ idx < Len(sorted_inputs)
    /\ \E c \in UNION {OpenCuts(idx + 1, sorted_inputs[idx + 1], codec) :
                         codec \in CodecStyles} : Interrupted(c)
    /\ UNCHANGED <<args, merged_count, skipped_files, sorted_inputs, output_file,
                   exit_code, pages, processed_entries, result>>

\* Ctrl-C at a prompt: in getpass, or after it returned (or raised EOFError),
\* up to the end of the iteration or to the next prompt
PromptCuts(k, file, codec) ==
    LET After(response) ==
            LET asked == [prompts EXCEPT ![k] = Append(@, response)]
                tried == [attempts EXCEPT ![k] = Append(@, response)]
            IN  IF response = EOFError
                THEN HandlerCuts(stdout, attempts, asked, writer, file)
                ELSE {Cut(TRUE, stdout, attempts, asked, writer, FALSE)}
                     \cup IF op = "merge_pdfs" /\ ~Truthy(response)
                          THEN SkipCuts(stdout, attempts, asked, file)
                          ELSE {Cut(TRUE, stdout, tried, asked, writer, FALSE)}
                               \cup IF try_decrypt(file.doc, response, codec)
                                    THEN AppendCuts(stdout, tried, asked, k, file)
                                    ELSE IF op = "merge_pdfs"
                                         THEN {}
                                         ELSE SkipCuts(stdout, tried, asked, file)
    IN  {Cut(TRUE, stdout, attempts, prompts, writer, FALSE)}
        \cup IF Len(prompts[k]) < MaxPrompts
             THEN UNION {After(response) : response \in Responses \cup {EOFError}}
             ELSE {}

FsInterruptPrompt ==
    /\ InMergePdfs /\ pc = "prompt"
    /\ \E c \in UNION {PromptCuts(idx + 1, sorted_inputs[idx + 1], codec) :
                         codec \in CodecStyles} : Interrupted(c)
    /\ UNCHANGED <<args, merged_count, skipped_files, sorted_inputs, output_file,
                   exit_code, pages, processed_entries, result>>

\* Ctrl-C while the list is sorted, or before the loop starts
FsInterruptSort ==
    /\ InMergePdfs /\ pc = "sort"
    /\ InterruptUnhandled(stdout)
    /\ UNCHANGED <<args, counters, sorted_inputs, output_file, exit_code, idx,
                   writer, pages, processed_entries, result, attempts, prompts>>

\* the file at output_path and the lines printed when Ctrl-C arrives after
\* the loop: before the file is opened, while it is written, after
\* writer.write finished (before or after "Saved" is printed), or in the
\* handler of a write that raised, after its message; with nothing merged,
\* before or after "No PDFs merged"
AfterLoopCuts ==
    LET partial == [exists |-> TRUE, complete |-> FALSE, pages |-> <<>>]
        written == [exists |-> TRUE, complete |-> TRUE, pages |-> writer]
        failed == Append(stdout, Line("Failed to write output", <<>>))
    IN  IF merged_count > 0
        THEN {[file |-> f, out |-> o] :
                 f \in {output_file, partial}, o \in {stdout, failed}}
             \cup {[file |-> written, out |-> o] :
                      o \in {stdout, Append(stdout, Line("Saved", <<>>))}}
        ELSE {[file |-> output_file, out |-> o] :
                 o \in {stdout, Append(stdout, Line("No PDFs merged", <<>>))}}

\* Ctrl-C after the loop: "except Exception" lets it pass and merge_pdfs
\* does not return
FsInterruptAfterLoop ==
    /\ InMergePdfs /\ pc = "loop" /\ idx = Len(sorted_inputs)
    /\ \E c \in AfterLoopCuts :
        /\ InterruptUnhandled(c.out)
        /\ output_file' = c.file
    /\ UNCHANGED <<args, counters, sorted_inputs, exit_code, idx, writer, pages,
                   processed_entries, result, attempts, prompts>>

FsInterrupt ==
    FsInterruptSort \/ FsInterruptOpen \/ FsInterruptPrompt \/ FsInterruptAfterLoop

\* after the loop: the output is written only if something merged
FsReturn ==
    /\ InMergePdfs /\ pc = "loop" /\ idx = Len(sorted_inputs)
    /\ pc' = "returned"
    /\ result' = [returned |-> TRUE, merged_count |-> merged_count,
                  skipped_count |-> skipped_count]
    /\ IF merged_count > 0
       THEN /\ output_file' = [exists |-> TRUE, complete |-> TRUE, pages |-> writer]
            /\ stdout' = Append(stdout, Line("Saved", <<>>))
       ELSE /\ UNCHANGED output_file
            /\ stdout' = Append(stdout, Line("No PDFs merged", <<>>))
    /\ UNCHANGED <<args, counters, sorted_inputs, exit_code, idx, writer, pages,
                   processed_entries, attempts, prompts>>

\* makedirs or open raises (nothing at output_path), or writer.write raises
\* (a truncated file): the message is printed and the exception re-raised
FsWriteRaises ==
    /\ InMergePdfs /\ pc = "loop" /\ idx = Len(sorted_inputs)
    /\ merged_count > 0
    /\ pc' = "raised"
    /\ \E opened \in BOOLEAN :
        output_file' = IF opened
                       THEN [exists |-> TRUE, complete |-> FALSE, pages |-> <<>>]
                       ELSE output_file
    /\ stdout' = Append(stdout, Line("Failed to write output", <<>>))
    /\ UNCHANGED <<args, counters, sorted_inputs, exit_code, idx, writer, pages,
                   processed_entries, result, attempts, prompts>>

FsNext == FsSort \/ FsOpenFile \/ FsPrompt \/ FsInterrupt \/ FsReturn \/ FsWriteRaises

SpecFs == FsInit /\ [][FsNext]_vars

-----------------------------------------------------------------------------
(* main of merge_unprotect_pdfs.py *)

\* inputs is what discover_pdfs returned for the folder
ScriptInit ==
    /\ op = "script"
    /\ pc = "main"
    /\ folder_exists \in BOOLEAN
    /\ \E n \in 0..MaxFiles : inputs \in FileSeqs(n)
    /\ ~folder_exists => inputs = <<>>
    /\ default_password \in DefaultPasswords
    /\ prompt_missing_passwords \in BOOLEAN
    /\ order_mode \in {"name", "mtime"}
    /\ OddNameInNameOrder
    /\ FreshRun

\* script:165-174: sys.exit(1) without a folder or without a matching file
ScriptMain ==
    /\ op = "script" /\ pc = "main"
    /\ IF ~folder_exists
       THEN /\ stdout' = Append(stdout, Line("Folder not found", <<>>))
            /\ exit_code' = 1
            /\ pc' = "exited"
       ELSE IF inputs = <<>>
       THEN /\ stdout' = Append(stdout, Line("No PDFs found", <<>>))
            /\ exit_code' = 1
            /\ pc' = "exited"
       ELSE /\ stdout' = Append(stdout, Line("Found", <<>>))
            /\ pc' = "sort"
            /\ UNCHANGED exit_code
    /\ UNCHANGED <<args, counters, sorted_inputs, output_file, idx, writer, pages,
                   processed_entries, result, attempts, prompts>>

Summary(merged, skipped, total) ==
    [text |-> "Summary", merged |-> merged, skipped |-> skipped, total |-> total]

\* script:182: merge_pdfs returned; the summary is printed and main ends
ScriptSummary ==
    /\ op = "script" /\ pc = "returned"
    /\ stdout' = Append(stdout,
                        Summary(result.merged_count, result.skipped_count, Len(inputs)))
    /\ exit_code' = 0
    /\ pc' = "exited"
    /\ UNCHANGED <<args, counters, sorted_inputs, output_file, idx, writer, pages,
                   processed_entries, result, attempts, prompts>>

UncaughtExitsZero(how) == 0

\* the interpreter's exit status for an exception nothing catches: 1, and for
\* KeyboardInterrupt the status of a process killed by SIGINT
UncaughtExit(how) == IF how = "raised" THEN 1 ELSE 130

\* merge_pdfs re-raised: main has no handler, the process ends there
ScriptUncaught ==
    /\ op = "script" /\ pc \in {"raised", "interrupted"}
    /\ exit_code' = UncaughtExit(pc)
    /\ pc' = "exited"
    /\ UNCHANGED <<args, counters, sorted_inputs, output_file, stdout, idx, writer,
                   pages, processed_entries, result, attempts, prompts>>

\* Ctrl-C in main: before its first print, between the message of an exit
\* path and sys.exit(1), between merge_pdfs's return and the summary, or in
\* or after the print of the summary
ScriptInterrupt ==
    /\ op = "script" /\ pc \in {"main", "returned"}
    /\ \E told \in BOOLEAN :
        InterruptUnhandled(
            IF ~told THEN stdout
            ELSE IF pc = "returned"
            THEN Append(stdout, Summary(result.merged_count, result.skipped_count,
                                        Len(inputs)))
            ELSE IF ~folder_exists
            THEN Append(stdout, Line("Folder not found", <<>>))
            ELSE IF inputs = <<>>
            THEN Append(stdout, Line("No PDFs found", <<>>))
            ELSE stdout)
    /\ UNCHANGED <<args, counters, sorted_inputs, output_file, exit_code, idx,
                   writer, pages, processed_entries, result, attempts, prompts>>

ScriptNext ==
    \/ ScriptMain
    \/ FsNext
    \/ ScriptSummary
    \/ ScriptInterrupt
    \/ ScriptUncaught

SpecScript == ScriptInit /\ [][ScriptNext]_vars

\* both copies of merge_pdfs
SpecMergePdfs == (FsInit \/ ScriptInit) /\ [][ScriptNext]_vars

\* the entry points of pdfmerger/core.py that open encrypted documents
SpecCore ==
    (StreamsInit \/ CompressInit \/ FsInit)
        /\ [][StreamsNext \/ CompressNext \/ FsNext]_vars

-----------------------------------------------------------------------------
(* merge_pdfs over arbitrary file names *)

\* '0', '1', '2', 'a', 'A'
AsciiNameChars == {48, 49, 50, 97, 65}

\* and ARABIC-INDIC DIGIT THREE, SUPERSCRIPT TWO
NameChars == AsciiNameChars \cup {1635, 178}

StemsOver(chars, maxLen) == UNION {[1..n -> chars] : n \in 0..maxLen}

Stems == StemsOver(NameChars, MaxNameLen)

\* the shorter names the second file takes
ShortStems == StemsOver(AsciiNameChars, MaxNameLen - 1)

\* a readable one-page file named stem + ".pdf"
NamedFiles(k, stems) ==
    {[name |-> stem \o DotPdf, mtime |-> k,
      doc |-> [kind |-> "plain", pw |-> None, pages |-> 1, bad_page |-> 0]] :
        stem \in stems}

OrderInit ==
    /\ op = "merge_pdfs"
    /\ pc = "sort"
    /\ \E first \in NamedFiles(1, Stems), second \in NamedFiles(2, ShortStems) :
          inputs = <<first, second>>
    /\ default_password = None
    /\ prompt_missing_passwords = FALSE
    /\ order_mode = "name"
    /\ folder_exists = TRUE
    /\ FreshRun

\* runs that no interrupt and no write failure cuts short
OrderNext == FsSort \/ FsOpenFile \/ FsReturn

SpecOrder == OrderInit /\ [][OrderNext]_vars

-----------------------------------------------------------------------------
(* Claims about merge_pdf_streams *)

StreamsReturned == op = "merge_pdf_streams" /\ result.returned

\* the truthy passwords a source can be opened with: default and override
Candidates(x, default) == {p \in {default, x.password} : Truthy(p)}

\* a source the codec can read, unlock with a candidate, and append in full
WellFormed(d) == d.kind # "corrupt" /\ d.bad_page = 0
Mergeable(x, default) ==
    /\ WellFormed(x.doc)
    /\ x.doc.kind = "encrypted" => x.doc.pw \in Candidates(x, default)

\* C1: every MergeOutput that merge_pdf_streams returns has a buffer if and
\* only if its merged_count > 0; when no source can be merged the buffer is
\* absent and merged_count = 0, whatever skipped_count is.
C1_BufferIffMerged ==
    StreamsReturned =>
        /\ result.buffer.present <=> result.merged_count > 0
        /\ (\A k \in 1..Len(inputs) : ~Mergeable(inputs[k], default_password))
              => ~result.buffer.present /\ result.merged_count = 0

\* a returned run that merged nothing although pages reached the writer
C1_Witness ==
    /\ StreamsReturned
    /\ result.merged_count = 0 /\ result.skipped_count = MaxDocs
    /\ writer # <<>>

\* (source, page) pairs in merge order
PageBefore(a, b) == a.src < b.src \/ (a.src = b.src /\ a.page < b.page)

RECURSIVE TotalPages(_)
TotalPages(s) == IF s = <<>> THEN 0 ELSE Head(s).doc.pages + TotalPages(Tail(s))

AllPlainWellFormed ==
    \A k \in 1..Len(inputs) : inputs[k].doc.kind = "plain" /\ inputs[k].doc.bad_page = 0

\* C2: merging N >= 1 unencrypted, well-formed documents with P1..PN pages
\* returns a buffer of exactly P1+...+PN pages, the sources in the caller's
\* order and each document's pages in their original order, merged_count = N
\* and nothing skipped.
C2_PagesInOrder ==
    (StreamsReturned /\ Len(inputs) >= 1 /\ AllPlainWellFormed) =>
        /\ result.buffer.present
        /\ result.merged_count = Len(inputs)
        /\ result.skipped_count = 0 /\ result.skipped_files = <<>>
        /\ LET out == result.buffer.pages
           IN  /\ Len(out) = TotalPages(inputs)
               /\ \A i \in 1..Len(out) :
                     /\ out[i].src \in 1..Len(inputs)
                     /\ out[i].page \in 1..inputs[out[i].src].doc.pages
               /\ \A i, j \in 1..Len(out) : i < j => PageBefore(out[i], out[j])

C2_Witness ==
    /\ StreamsReturned /\ AllPlainWellFormed
    /\ Len(inputs) = MaxDocs
    /\ \A k \in 1..Len(inputs) : inputs[k].doc.pages = MaxPages

\* C3: an encrypted document whose only password candidate is wrong is
\* skipped and named in skipped_files; an encrypted document (whose pages
\* all append) with a correct per-document password is merged, its pages in
\* the output, even when the default password is absent or wrong.
C3_WrongSkippedOverrideMerged ==
    StreamsReturned =>
        \A k \in 1..Len(inputs) :
            LET x == inputs[k]
                cands == Candidates(x, default_password)
            IN  x.doc.kind = "encrypted" =>
                /\ (Cardinality(cands) = 1 /\ x.doc.pw \notin cands)
                      => x.name \in Range(result.skipped_files)
                /\ (x.password = x.doc.pw /\ default_password # x.doc.pw
                        /\ x.doc.bad_page = 0)
                      => /\ x.name \notin Range(result.skipped_files)
                         /\ result.buffer.present
                         /\ \A p \in 1..x.doc.pages :
                               [src |-> k, page |-> p] \in Range(result.buffer.pages)

\* a wrong default and a correct override on one source, a lone wrong
\* candidate on the other
C3_Witness ==
    /\ StreamsReturned /\ Len(inputs) = 2
    /\ inputs[1].doc.kind = "encrypted" /\ inputs[2].doc.kind = "encrypted"
    /\ Truthy(default_password)
    /\ default_password # inputs[1].doc.pw /\ inputs[1].password = inputs[1].doc.pw
    /\ inputs[2].password = None /\ default_password # inputs[2].doc.pw
    /\ result.merged_count = 1 /\ result.skipped_files = <<inputs[2].name>>

\* a source that is decoded and unlocked, and whose page bad_page fails to append
AppendFails(x, default) ==
    /\ x.doc.kind # "corrupt" /\ x.doc.bad_page > 0
    /\ x.doc.kind = "encrypted" => x.doc.pw \in Candidates(x, default)

\* the pages source x leaves in the output
RECURSIVE PagesLeft(_, _)
PagesLeft(s, default) ==
    IF s = <<>> THEN 0
    ELSE PagesLeft(Tail(s), default) +
         (IF Mergeable(Head(s), default) THEN Head(s).doc.pages
          ELSE IF AppendFails(Head(s), default) THEN Head(s).doc.bad_page - 1
          ELSE 0)

\* C12: when appending page k of a decoded document fails, the document is
\* named in skipped_files and not counted in merged_count, the run goes on
\* to the later sources, and pages 1..k-1 of the document (and no other of
\* its pages) stay in the accumulated output; when some document is merged,
\* the returned buffer holds the pages of the merged documents plus the pages
\* already appended from the append-failed ones.
C12_PartialPagesStay ==
    op = "merge_pdf_streams" =>
        /\ \A k \in 1..idx :
              AppendFails(inputs[k], default_password) =>
                /\ inputs[k].name \in Range(skipped_files)
                /\ \A p \in 1..inputs[k].doc.pages :
                      [src |-> k, page |-> p] \in Range(writer)
                          <=> p < inputs[k].doc.bad_page
        /\ merged_count =
              Cardinality({k \in 1..idx : Mergeable(inputs[k], default_password)})
        /\ result.returned =>
              /\ idx = Len(inputs)
              /\ result.merged_count = merged_count
              /\ result.buffer.present =>
                    /\ result.buffer.pages = writer
                    /\ Len(result.buffer.pages) = PagesLeft(inputs, default_password)
                    /\ \A i, j \in 1..Len(writer) :
                          i < j => PageBefore(writer[i], writer[j])

\* the first document fails on its last page, the second is merged: the
\* buffer holds more pages than the merged document has
C12_Witness ==
    /\ StreamsReturned /\ Len(inputs) = 2
    /\ inputs[1].doc.pages = MaxPages /\ inputs[1].doc.bad_page = MaxPages
    /\ result.merged_count = 1 /\ result.skipped_files = <<inputs[1].name>>
    /\ result.buffer.present
    /\ Len(result.buffer.pages) = inputs[2].doc.pages + MaxPages - 1

-----------------------------------------------------------------------------
(* Claims about images_to_pdf_streams *)

ImagesReturned == op = "images_to_pdf_streams" /\ result.returned

IsDecodable(x) == x.decodable
IsUndecodable(x) == ~x.decodable
NamesOf(s) == [k \in 1..Len(s) |-> s[k].name]

\* C6: on K decodable and J undecodable images, a successful assembly
\* returns a buffer (one page per decodable image, in input order),
\* processed_count = K and skipped_count = J; a failed assembly returns no
\* buffer, processed_count = 0, skipped_count = J + K and skipped_files = the
\* J undecodable names followed by the K decoded names, each in input order.
C6_ImagesAllOrNothing ==
    ImagesReturned =>
        LET good == SelectSeq(inputs, IsDecodable)
            bad == SelectSeq(inputs, IsUndecodable)
            K == Len(good)
            J == Len(bad)
        IN  /\ pc = "returned" =>
                /\ result.buffer.present <=> K > 0
                /\ K > 0 => NamesOf(result.buffer.pages) = NamesOf(good)
                /\ result.processed_count = K
                /\ result.skipped_count = J
                /\ result.skipped_files = NamesOf(bad)
            /\ pc = "returned_after_save_error" =>
                /\ ~result.buffer.present
                /\ result.processed_count = 0
                /\ result.skipped_count = J + K
                /\ result.skipped_files = NamesOf(bad) \o NamesOf(good)
                /\ Range(result.skipped_files) = Range(NamesOf(inputs))

\* a failed assembly after a decode failure between two decoded images
C6_Witness ==
    /\ ImagesReturned /\ pc = "returned_after_save_error"
    /\ Len(inputs) = 3
    /\ inputs[1].decodable /\ ~inputs[2].decodable /\ inputs[3].decodable
    /\ result.skipped_count = 3

-----------------------------------------------------------------------------
(* Claims about compress_pdf_stream *)

CompressReturned == op = "compress_pdf_stream" /\ result.returned

\* C7: for a document compress_pdf_stream does not report as skipped, the
\* pages written and the pages reported both equal the input's page count,
\* each page in its original position, compressed or (when its compression
\* failed) uncompressed.
C7_CompressKeepsPages ==
    /\ (CompressReturned /\ ~result.skipped) =>
        /\ result.pages = inputs[1].doc.pages
        /\ result.buffer.present
        /\ Len(result.buffer.pages) = inputs[1].doc.pages
        /\ \A p \in 1..Len(result.buffer.pages) : result.buffer.pages[p].page = p
    /\ op = "compress_pdf_stream" =>
        /\ Len(writer) = pages
        /\ \A p \in 1..Len(writer) : writer[p].page = p

\* a compressed document whose first page failed to compress and whose
\* last page did not
C7_Witness ==
    /\ CompressReturned /\ ~result.skipped
    /\ result.pages = MaxPages
    /\ ~result.buffer.pages[1].compressed
    /\ result.buffer.pages[MaxPages].compressed

\* C11: every CompressOutput compress_pdf_stream returns has a buffer if and
\* only if it is not skipped.  The unreadable, locked and write-failure
\* outcomes are skipped, carry their reason and no buffer, the write-failure
\* one still reporting the pages processed; the success outcome is not
\* skipped, has no reason and has a buffer.
C11_BufferIffNotSkipped ==
    CompressReturned =>
        LET doc == inputs[1].doc
            unlockable == doc.kind = "encrypted" =>
                              doc.pw \in Candidates(inputs[1], default_password)
        IN  /\ result.buffer.present <=> ~result.skipped
            /\ result.skipped <=> result.skipped_reason # None
            /\ result.source_name = inputs[1].name
            /\ doc.kind = "corrupt" =>
                  /\ result.skipped /\ result.pages = 0
                  /\ result.skipped_reason = "Unable to read PDF"
            /\ (doc.kind = "encrypted" /\ ~unlockable) =>
                  /\ result.skipped /\ result.pages = 0
                  /\ result.skipped_reason = "Password required or incorrect"
            /\ (doc.kind # "corrupt" /\ unlockable) =>
                  /\ result.pages = doc.pages
                  /\ result.skipped =>
                        result.skipped_reason = "Failed to write compressed PDF"

\* a write failure after every page of the document was processed
C11_Witness ==
    /\ CompressReturned /\ result.skipped /\ ~result.buffer.present
    /\ result.skipped_reason = "Failed to write compressed PDF"
    /\ result.pages = MaxPages /\ Len(writer) = MaxPages

-----------------------------------------------------------------------------
(* Claims about merge_pdfs and main *)

Printed(text, file) == Line(text, file) \in Range(stdout)

\* the file whose turn it is has been dealt with
Finished(k) == k <= idx

WrongNonEmpty(response, doc) == Truthy(response) /\ response # doc.pw

\* the prompts merge_pdfs has to issue for its k-th file: it is encrypted and
\* the common password is absent or does not open it
NeedsPrompt(k) ==
    /\ sorted_inputs[k].doc.kind = "encrypted"
    /\ ~(Truthy(default_password) /\ default_password = sorted_inputs[k].doc.pw)

\* C4 as claimed: with prompting permitted, at most one prompt per document
\* in both copies of merge_pdfs; an empty response, and a wrong non-empty
\* one, end with the document skipped.
C4_AtMostOnePrompt ==
    (InMergePdfs /\ prompt_missing_passwords) =>
        \A k \in 1..Len(prompts) :
            /\ Len(prompts[k]) <= 1
            /\ (Finished(k) /\ Len(prompts[k]) = 1 /\ prompts[k][1] \in Responses
                    /\ (prompts[k][1] = "" \/ prompts[k][1] # sorted_inputs[k].doc.pw))
                  => Printed("Could not decrypt", sorted_inputs[k].name)

\* C4, amended: with prompting permitted, a document is prompted for exactly
\* when it is encrypted and the common password is absent or fails.  The
\* script's merge_pdfs prompts once and tries the response as typed, empty or
\* not: the document is skipped iff that attempt fails.  pdfmerger.core's
\* merge_pdfs prompts again after every wrong non-empty response: prompting
\* ends only with an empty response (document skipped, nothing tried) or with
\* a response that unlocks the document (document not skipped as locked).
\* In both, a prompt that meets the end of input ends the document as a
\* failure to read, without a further prompt.
C4_PromptUntilEmptyOrUnlocked ==
    (InMergePdfs /\ prompt_missing_passwords) =>
        \A k \in 1..Len(prompts) :
            LET doc == sorted_inputs[k].doc
                rs == prompts[k]
                n == Len(rs)
                skipped == Printed("Could not decrypt", sorted_inputs[k].name)
            IN  /\ n > 0 => NeedsPrompt(k)
                /\ (Finished(k) /\ NeedsPrompt(k)) => n > 0
                /\ \A i \in 1..(n - 1) : rs[i] # EOFError
                /\ (Finished(k) /\ n > 0 /\ rs[n] = EOFError) =>
                      /\ ~skipped
                      /\ Printed("Failed to read", sorted_inputs[k].name)
                /\ op = "script" =>
                    /\ n <= 1
                    /\ (Finished(k) /\ n = 1 /\ rs[1] # EOFError) =>
                          (skipped <=> rs[1] # doc.pw)
                /\ op = "merge_pdfs" =>
                    /\ \A i \in 1..(n - 1) : WrongNonEmpty(rs[i], doc)
                    /\ (pc = "prompt" /\ k = idx + 1 /\ n > 0) =>
                          WrongNonEmpty(rs[n], doc)
                    /\ (Finished(k) /\ n > 0) =>
                        /\ rs[n] \in {"", doc.pw, EOFError}
                        /\ skipped <=> rs[n] = ""

\* the core copy prompted twice for one file and then merged it
C4_Witness ==
    /\ op = "merge_pdfs" /\ prompt_missing_passwords
    /\ Len(prompts) >= 1 /\ Len(prompts[1]) = 2 /\ Finished(1)
    /\ merged_count = 1

\* the runs that may not prompt
PromptingForbidden ==
    \/ op \in {"merge_pdf_streams", "compress_pdf_stream"}
    \/ op = "merge_pdfs" /\ ~prompt_missing_passwords

\* the k-th source of the run, and the passwords the run holds for it
SourceAt(k) == IF op = "merge_pdfs" THEN sorted_inputs[k] ELSE inputs[k]

CandidateList(k) ==
    LET first == IF Truthy(default_password) THEN <<default_password>> ELSE <<>>
    IN  IF op = "merge_pdfs" THEN first
        ELSE IF Truthy(inputs[k].password) /\ inputs[k].password # default_password
             THEN Append(first, inputs[k].password)
             ELSE first

Locked(k) ==
    /\ SourceAt(k).doc.kind = "encrypted"
    /\ SourceAt(k).doc.pw \notin Range(CandidateList(k))

RecordedSkipped(k) ==
    IF op = "merge_pdf_streams" THEN SourceAt(k).name \in Range(skipped_files)
    ELSE IF op = "merge_pdfs" THEN Printed("Could not decrypt", SourceAt(k).name)
    ELSE /\ result.returned /\ result.skipped /\ ~result.buffer.present
         /\ result.skipped_reason = "Password required or incorrect"

\* C5: where prompting is not permitted (merge_pdfs with
\* prompt_missing_passwords = False, merge_pdf_streams, compress_pdf_stream)
\* no prompt is ever issued; an encrypted document that none of its
\* candidates opens (or that has none) is recorded as skipped once exactly
\* those candidates were tried, and the run goes on to the next document.
C5_NoPromptSkipsLocked ==
    PromptingForbidden =>
        /\ pc # "prompt"
        /\ \A k \in 1..Len(prompts) : prompts[k] = <<>>
        /\ \A k \in 1..idx :
              Locked(k) =>
                /\ attempts[k] = CandidateList(k)
                /\ RecordedSkipped(k)
        /\ (pc = "returned" /\ op # "compress_pdf_stream") => idx = Len(inputs)
        /\ (pc = "loop" /\ op = "merge_pdfs") => Len(stdout) >= idx

\* a locked document skipped without a prompt, and a later document merged
C5_Witness ==
    /\ op = "merge_pdfs" /\ ~prompt_missing_passwords
    /\ pc = "returned" /\ Len(sorted_inputs) = 2
    /\ Locked(1) /\ attempts[1] # <<>>
    /\ result.merged_count = 1 /\ result.skipped_count = 1

IsPrefix(a, c) == Len(a) <= Len(c) /\ SubSeq(c, 1, Len(a)) = a

\* C13: for each document merge_pdf_streams or compress_pdf_stream handles,
\* the decrypt attempts are a prefix of the candidate list (the default
\* password if given, then the per-document password if given and distinct):
\* none for a document that is not encrypted, no password twice, the default
\* before the per-document one, and no attempt after the first that succeeds,
\* the list being cut short only by a success.
C13_AttemptsPrefixOfCandidates ==
    op \in {"merge_pdf_streams", "compress_pdf_stream"} =>
        \A k \in 1..Len(attempts) :
            LET x == inputs[k]
                a == attempts[k]
                c == CandidateList(k)
            IN  /\ IsPrefix(a, c)
                /\ x.doc.kind # "encrypted" => a = <<>>
                /\ \A i, j \in 1..Len(a) : i < j => a[i] # a[j]
                /\ \A i, j \in 1..Len(a) :
                      (a[i] = default_password /\ a[j] = x.password /\ i # j) => i < j
                /\ \A i \in 1..(Len(a) - 1) : a[i] # x.doc.pw
                /\ x.doc.kind = "encrypted" =>
                      \/ a = c
                      \/ Len(a) > 0 /\ a[Len(a)] = x.doc.pw

\* one document opened by its own password after the default failed, the
\* next by the default, its own password never tried
C13_Witness ==
    /\ StreamsReturned /\ Len(inputs) = 2
    /\ attempts[1] = <<default_password, inputs[1].password>>
    /\ inputs[1].doc.pw = inputs[1].password
    /\ attempts[2] = <<default_password>>
    /\ Truthy(inputs[2].password) /\ inputs[2].password # default_password

\* C14: a returning run of merge_pdf_streams over n sources classifies each
\* source exactly once: merged_count + skipped_count = n, skipped_files has
\* skipped_count entries and lists the names of the sources that were not
\* merged, in processing order; merge_pdfs returns counts that add up to the
\* number of input paths.  In both loops the counts add up to the number of
\* sources dealt with so far.
C14_EverySourceClassifiedOnce ==
    /\ op = "merge_pdf_streams" =>
          LET NotMerged(x) == ~Mergeable(x, default_password)
          IN  /\ merged_count + skipped_count = idx
              /\ Len(skipped_files) = skipped_count
              /\ result.returned =>
                    /\ result.merged_count + result.skipped_count = Len(inputs)
                    /\ Len(result.skipped_files) = result.skipped_count
                    /\ result.skipped_files = NamesOf(SelectSeq(inputs, NotMerged))
    /\ op = "merge_pdfs" =>
          /\ merged_count + skipped_count = idx
          /\ result.returned =>
                /\ result.merged_count + result.skipped_count = Len(inputs)
                /\ result.merged_count = merged_count
                /\ result.skipped_count = skipped_count

\* a run that skipped both its sources, the first unreadable, the second locked
C14_Witness ==
    /\ StreamsReturned /\ Len(inputs) = 2
    /\ inputs[1].doc.kind = "corrupt" /\ inputs[2].doc.kind = "encrypted"
    /\ result.merged_count = 0 /\ result.skipped_count = 2
    /\ result.skipped_files = <<inputs[1].name, inputs[2].name>>

Aborted == Printed("Aborted by user", <<>>)

\* the run ended by an interrupt with a file of the loop still to be dealt
\* with
InterruptedInLoop ==
    /\ InMergePdfs /\ pc \in {"interrupted", "exited"}
    /\ idx < Len(sorted_inputs)

\* the files whose "Processing:" line was printed
Announced ==
    {k \in 1..Len(sorted_inputs) : Printed("Processing", sorted_inputs[k].name)}

\* the pages of the files up to the k-th are all the writer holds
NoPageAfter(k) == \A p \in 1..Len(writer) : writer[p].src <= k

\* a file of the loop is being processed: its iteration has not started the
\* next one, or it waits at its prompt
InLoop ==
    /\ InMergePdfs
    /\ pc = "prompt" \/ (pc = "loop" /\ idx < Len(sorted_inputs))

\* the states an interrupt in the loop leaves: no file after the interrupted
\* one is dealt with, nothing returned, nothing at output_path
C8_AbortedStates ==
    /\ InterruptedInLoop =>
        /\ ~result.returned
        /\ output_file = NoFile
        /\ \A k \in Announced : k <= idx + 1
        /\ Len(prompts) <= idx + 1 /\ Len(attempts) <= idx + 1
        /\ NoPageAfter(idx + 1)
        /\ merged_count + skipped_count = idx
        /\ (op = "script" /\ pc = "exited") =>
              exit_code # 0 /\ stdout[Len(stdout)].text # "Summary"
    /\ (InMergePdfs /\ Aborted) =>
        /\ InterruptedInLoop
        /\ stdout[Len(stdout)] = Line("Aborted by user", <<>>)

\* the step of an interrupt in the loop, wherever in the iteration it
\* arrives (the end of the last file's iteration included), and the steps
\* after it
C8_AbortingSteps ==
    /\ (InLoop /\ pc' = "interrupted") =>
        /\ ~result'.returned
        /\ output_file' = NoFile
        /\ idx' \in {idx, idx + 1}
        /\ merged_count' = merged_count
        /\ merged_count' + skipped_count' = idx'
        /\ \A k \in 1..Len(sorted_inputs) :
              Line("Processing", sorted_inputs[k].name) \in Range(stdout')
                  => k <= idx + 1
        /\ Len(prompts') <= idx + 1 /\ Len(attempts') <= idx + 1
        /\ \A p \in 1..Len(writer') : writer'[p].src <= idx + 1
        /\ SubSeq(writer', 1, Len(writer)) = writer
    /\ (InMergePdfs /\ pc = "interrupted") =>
        /\ pc' = "exited" /\ exit_code' # 0
        /\ UNCHANGED <<output_file, result, writer, stdout, idx, counters,
                       attempts, prompts>>
    /\ (InMergePdfs /\ ~Aborted /\ Line("Aborted by user", <<>>) \in Range(stdout')) =>
        InLoop /\ pc' = "interrupted"

\* C8: an interrupt while a file of merge_pdfs's loop is being processed
\* aborts the run there, wherever in the iteration it arrives: the files
\* after the interrupted one are not dealt with (not announced, not opened,
\* no page of theirs added, not counted), merge_pdfs does not return and
\* nothing is ever written at output_path, even with documents already
\* merged, whose pages stay in the writer; after the interrupt the script
\* only ends, with a non-zero status and nothing more printed.  "Aborted by
\* user." is printed by such an interrupt only, and is then the last line.
C8_InterruptAborts == []C8_AbortedStates /\ [][C8_AbortingSteps]_vars

\* interrupted after the second file's page was added, the first file's page
\* still in the writer
C8_Witness ==
    /\ op = "merge_pdfs" /\ pc = "interrupted"
    /\ idx = 1 /\ merged_count = 1 /\ Len(attempts) = 2
    /\ Len(writer) = 2 /\ writer[1].src = 1 /\ writer[2].src = 2
    /\ Aborted
    /\ output_file = NoFile

LastLine == stdout[Len(stdout)]

\* the process ended with the status of an unhandled KeyboardInterrupt
EndedByInterrupt == exit_code = UncaughtExit("interrupted")

IsSummaryLine(line) == line.text = "Summary"

\* C9 as claimed: exit code 1 exactly when the folder does not exist or no
\* file matches; every other run exits with 0 after printing the summary
\* (here: every other run that no interrupt ends).
C9_ExitOneOnlyWithoutFiles ==
    (op = "script" /\ pc = "exited" /\ ~EndedByInterrupt) =>
        IF ~folder_exists \/ inputs = <<>>
        THEN exit_code = 1
        ELSE exit_code = 0 /\ LastLine.text = "Summary"

\* C9, amended: in a run no interrupt ends, main exits with 1 when the
\* folder does not exist or no file matches; otherwise it prints the summary
\* (merged, skipped, total) and ends with 0 exactly when merge_pdfs returns,
\* every document skipped included.  When writing the output fails, or the
\* sort by name raises, merge_pdfs raises and main has no handler: no
\* summary, exit status 1.  An interrupt ends the process with a non-zero
\* status, also after merge_pdfs returned, and also when it arrives in or
\* after the print of the summary.  The summary is printed at most once,
\* only after merge_pdfs returned, with its counts, and is then the last
\* line; every run that ends with 0 has printed it.
C9_ExitCodes ==
    (op = "script" /\ pc = "exited") =>
        /\ exit_code # NotExited
        /\ exit_code = 0 =>
              /\ stdout # <<>> /\ LastLine.text = "Summary"
              /\ ~Aborted
        /\ \A i \in 1..Len(stdout) :
              IsSummaryLine(stdout[i]) =>
                /\ i = Len(stdout)
                /\ result.returned
                /\ stdout[i] = Summary(merged_count, skipped_count, Len(inputs))
                /\ exit_code = 0 \/ EndedByInterrupt
        /\ Aborted => EndedByInterrupt
        /\ ~EndedByInterrupt =>
             IF ~folder_exists \/ inputs = <<>>
             THEN exit_code = 1
             ELSE /\ exit_code = 0 <=> result.returned
                  /\ exit_code = 1 <=>
                       \/ Printed("Failed to write output", <<>>)
                       \/ SortRaises(inputs, order_mode)

\* every document skipped, summary printed, exit 0
C9_Witness ==
    /\ op = "script" /\ pc = "exited" /\ exit_code = 0
    /\ Len(inputs) = 2 /\ skipped_count = 2 /\ merged_count = 0
    /\ LastLine = Summary(0, 2, 2)

\* the names on the "Processing:" lines, in the order printed
IsProcessingLine(line) == line.text = "Processing"
ProcessingOrder ==
    LET lines == SelectSeq(stdout, IsProcessingLine)
    IN  [k \in 1..Len(lines) |-> lines[k].file]

\* the last position of the run of digits of x that starts at i
RECURSIVE RunEnd(_, _)
RunEnd(x, i) == IF i < Len(x) /\ IsDigit(x[i + 1]) THEN RunEnd(x, i + 1) ELSE i

\* x and y are the same text but for one maximal run of digits each, and the
\* run of x is the smaller number
SmallerNumberIn(x, y) ==
    \E i \in 1..Len(x) :
        /\ i <= Len(y) /\ IsDigit(x[i]) /\ IsDigit(y[i])
        /\ i > 1 => ~IsDigit(x[i - 1])
        /\ SubSeq(x, 1, i - 1) = SubSeq(y, 1, i - 1)
        /\ LET j == RunEnd(x, i)
               l == RunEnd(y, i)
           IN  /\ SubSeq(x, j + 1, Len(x)) = SubSeq(y, l + 1, Len(y))
               /\ int(SubSeq(x, i, j)) < int(SubSeq(y, i, l))

\* the keys differ in exactly one element, a number, smaller in a
KeysDifferInOneNumber(a, b) ==
    /\ Len(a) = Len(b)
    /\ \E i \in 1..Len(a) :
        /\ a[i].int /\ b[i].int /\ a[i].val < b[i].val
        /\ \A j \in 1..Len(a) : j # i => a[j] = b[j]

\* C10: of two file names whose natural_key keys differ only in one numeric
\* segment, the one with the smaller number is processed first whatever the
\* digit counts ("a2.pdf" before "a10.pdf"), and merge_pdfs in "name" order
\* processes the files in ascending natural_key order of their base names.
C10_NaturalOrder ==
    (op = "merge_pdfs" /\ order_mode = "name") =>
        \A p, q \in 1..Len(ProcessingOrder) :
            p < q =>
                LET x == ProcessingOrder[p]
                    y == ProcessingOrder[q]
                IN  /\ ~KeysDifferInOneNumber(natural_key(y), natural_key(x))
                    /\ ~SmallerNumberIn(y, x)
                    /\ ~ListLess(natural_key(y), natural_key(x))

\* "a10.pdf" was listed before "a2.pdf" and processed after it
C10_Witness ==
    /\ op = "merge_pdfs" /\ pc = "returned"
    /\ inputs[1].name = <<97, 49, 48>> \o DotPdf
    /\ inputs[2].name = <<97, 50>> \o DotPdf
    /\ ProcessingOrder = <<inputs[2].name, inputs[1].name>>

====
